---- MODULE Spec2Model ----
(***************************************************************************)
(* Live-migration engine of architekt/drafter.                             *)
(*                                                                         *)
(* Spec       MigratablePeer.MigrateTo (atomic-counter controller) and the *)
(*            DirtyManager controller from the creation of the migrators   *)
(*            on, with the destination's event handler.  The variable impl *)
(*            selects the controller.                                      *)
(* SpecSend   the announcement of the devices (DevInfo, AllDevicesSent)    *)
(*            that precedes it.                                            *)
(* SpecRoles  the MigrateTo of pkg/roles/peer.go (final dirty blocks are   *)
(*            collected and migrated after the authority transfer).        *)
(* SpecPolicy the convergence policy applied to arbitrary samples.         *)
(* SpecFrom   the announcement as Peer.MigrateFrom admits it, for any      *)
(*            device list.                                                 *)
(* SpecSchema the device schema MigrateFrom builds from local files.       *)
(* SpecStage  the devices MigratablePeer.MigrateTo serves and the indices  *)
(*            of their to-protocols.                                       *)
(* SpecNeed   the NeedAt and DontNeedAt handlers of one device.            *)
(* SpecLock   the lock and unlock handlers of the migrators.               *)
(* SpecClose  migratedPeer.Close and the registered close functions.       *)
(* SpecLive   Spec under fair scheduling.                                  *)
(* SpecRunner the Resume calls of a runner and the goroutine of            *)
(*            StartRunner that ends the hypervisor process.                *)
(* SpecAccept one call of AgentServer.Accept.                              *)
(***************************************************************************)
EXTENDS Integers, Sequences, FiniteSets, TLC

\* The served devices (stage5Inputs); packager.MemoryName is "memory".
Devices == {"memory", "disk"}
MemoryName == "memory"
NumDevices == Cardinality(Devices)

\* Blocks per device that the guest can dirty between two samples.
NumBlocks == 1
\* Migration device config (MigrateToDevice), the same for every device.
MaxDirtyBlocks == 1
MinCycles == 0
MaxCycles == 1
\* Cap on the dirty-loop iterations one device runs in the model.
CycleCap == 3
\* The same cap in SpecRoles.
RolesCycleCap == 2
\* Cap on the blocks of one device the migrator holds unwritten during the loop.
MaxMoving == 1
\* Ranges of the configs and samples the policy is checked for.
PolMaxDirty == 2
PolMaxMin == 2
PolMaxMax == 3
PolMaxSample == 2
PolMaxCycle == 6
\* Longest path (Base, Overlay, State) of a device config, in characters.
MaxPathLen == 1
\* NeedAt/DontNeedAt: device sizes, block sizes and request lengths in bytes.
NeedMaxSize == 5
NeedMaxBlockSize == 2
NeedMaxLength == 3
\* Calls of mig.GetLatestDirty per device the lock handlers are followed for.
LockCycleCap == 2
\* Calls of runner.Resume made on one runner.
MaxResumeCalls == 2

VARIABLES
    impl,                   \* "peer": MigratablePeer.MigrateTo, "dm": DirtyManager,
                            \* "roles": the MigrateTo of pkg/roles/peer.go
    migrateToDevice,        \* per device: MaxDirtyBlocks, MinCycles, MaxCycles
    pc,                     \* position of every device goroutine
    devicesLeftToSend,                  \* atomic.Int32
    devicesLeftToTransferAuthorityFor,  \* atomic.Int32 / len(dm.ReadyDevices)
    suspendedVM,            \* guarded by suspendedVMLock
    suspendedVMCh,          \* TRUE once close(suspendedVMCh) ran
    onceState,              \* sync.OnceValue of suspendAndMsyncVM: idle, running, done
    onceErr,                \* the error the OnceValue cached
    vmRunning,              \* the guest is executing (hypervisor not paused)
    memPending,             \* guest memory pages not yet msync'ed
    dirty,                  \* dirty blocks the tracker holds per device
    blocks,                 \* len of the sample of the current iteration
    cyclesBelowDirtyBlockTreshold,
    totalCycles,
    ready,                  \* markDeviceAsReadyForAuthorityTransfer ran / di.Ready
    ongoingMigrationsWg,    \* MigrateDirty goroutines not yet Done
    moving,                 \* blocks handed to the migrator, not yet written (SpecRoles)
    finalDirtyBlocks,       \* len(finalDirtyBlocks) (SpecRoles)
    samples,                \* the sample sizes the policy was applied to (SpecPolicy)
    adsGoroutine,           \* the goroutine sending AllDevicesSent: none, started, done
    evQ,                    \* events sent per device, not yet handled
    devInfoQ,               \* DevInfo per device: none, sent, handled
    receivedButNotReadyRemoteDevices,
    allRemoteDevicesReady,
    dstAuthority,           \* destination handled TransferAuthority of the device
    dstCompleted,
    devices,                \* the device list passed to MigrateFrom
    stage2Inputs,           \* names of the devices MigrateFrom set up
    errs,                   \* the errors joined into MigrateFrom's result
    internalCtxDone,        \* the panic handler cancelled internalCtx
    allRemoteDevicesReceived,   \* allRemoteDevicesReceivedCtx is done
    migrateFrom,            \* position of the MigrateFrom call itself
    input,                  \* the MigrateFromDevice a local device is built from
    ds,                     \* the DeviceSchema built for it
    stage4Inputs,           \* names of the devices of the resumed peer, in order
    stage4Pos,              \* inputs the loop that builds stage5Inputs has seen
    stage5Inputs,           \* names of the devices MigrateTo serves, in order
    tos,                    \* the NewToProtocol calls made: name and index
    storageSize,            \* input.prev.storage.Size() of the device the handlers serve
    blockSize,              \* input.prev.prev.prev.blockSize of that device
    prioritised,            \* blocks orderer.PrioritiseBlock was called with
    removed,                \* blocks orderer.Remove was called with
    needCall,               \* the last NeedAt or DontNeedAt handled and its blocks
    gateLocked,             \* per device: input.prev.storage is locked
    lockTrace,              \* per device: the events the lock handlers sent and
                            \* their calls of storage.Lock and storage.Unlock, in order
    lockPc,                 \* per device: position of the goroutine calling the handlers
    lockCycles,             \* per device: calls of mig.GetLatestDirty so far
    deviceCloseFuncs,       \* the close functions registered, in order
    deviceCloseFuncsLock,   \* TRUE while migratedPeer.Close holds the lock
    closePc,                \* position of the call of migratedPeer.Close
    closeRange,             \* the slice the range loop of Close iterates
    closeIdx,               \* elements of it the loop has seen
    deferred,               \* the calls Close has deferred, oldest first
    closeTrace,             \* the calls Close made, in order, with their outcome
    closeErrs,              \* the errors joined into the result of Close, in order
    resumeVersion,          \* the Resume the runner has: "resume.go" or "part_006"
    hypervisorCtxDone,      \* hypervisorCtx of StartRunner is done
    rescueCtxDone,          \* rescueCtx of StartRunner is done
    firecrackerCtxDone,     \* firecrackerCtx, the context of the hypervisor process
    ongoingResumeWg,        \* counter of the sync.WaitGroup ongoingResumeWg
    waiterPc,               \* position of the goroutine that cancels firecrackerCtx
    resumePc,               \* per call of Resume: its position
    suspendOnPanicWithError, \* per call: the local flag of that name
    agent,                  \* per call: agent is not nil
    acceptingAgent,         \* per call: "nil", or what Accept returned
    resumeFailedAt,         \* per call: the position its panic was raised at
    resumeTrace,            \* per call: the calls of OnAfterRecover, in order
    acceptPc,               \* position of the call of AgentServer.Accept
    closed,                 \* the flag closed of StartAgentServer
    lisClosed,              \* lis.Close() was called
    acceptCtxDone,          \* internalCtx of Accept is done
    readyCtxDone,           \* readyCtx of Accept is done
    remoteCtxDone,          \* remoteCtx of Accept is done
    connClosed,             \* conn.Close() was called
    watcherPc,              \* position of the first goroutine of Accept
    closerPc,               \* position of the goroutine that closes the connection
    acceptingAgentServer,   \* the fields of the result of Accept that are set
    acceptErrs,             \* the error Accept returned
    AuthorityTransferCompleted, \* DirtyManager latch
    obs                     \* counters of the externally visible calls

vars == <<impl, migrateToDevice, pc, devicesLeftToSend, devicesLeftToTransferAuthorityFor,
          suspendedVM, suspendedVMCh, onceState, onceErr, vmRunning, memPending,
          dirty, blocks, cyclesBelowDirtyBlockTreshold, totalCycles, ready,
          ongoingMigrationsWg, moving, finalDirtyBlocks, samples,
          adsGoroutine, evQ, devInfoQ,
          receivedButNotReadyRemoteDevices, allRemoteDevicesReady,
          dstAuthority, dstCompleted,
          devices, stage2Inputs, errs, internalCtxDone,
          allRemoteDevicesReceived, migrateFrom, input, ds,
          stage4Inputs, stage4Pos, stage5Inputs, tos,
          storageSize, blockSize, prioritised, removed, needCall,
          gateLocked, lockTrace, lockPc, lockCycles,
          deviceCloseFuncs, deviceCloseFuncsLock, closePc, closeRange, closeIdx,
          deferred, closeTrace, closeErrs,
          resumeVersion, hypervisorCtxDone, rescueCtxDone, firecrackerCtxDone,
          ongoingResumeWg, waiterPc, resumePc, suspendOnPanicWithError, agent,
          acceptingAgent, resumeFailedAt, resumeTrace,
          acceptPc, closed, lisClosed, acceptCtxDone, readyCtxDone,
          remoteCtxDone, connClosed, watcherPc, closerPc,
          acceptingAgentServer, acceptErrs,
          AuthorityTransferCompleted, obs>>

srcShared == <<devicesLeftToSend, devicesLeftToTransferAuthorityFor,
               suspendedVM, suspendedVMCh, onceState, onceErr>>
guestVars == <<vmRunning, memPending, dirty>>
loopVars == <<blocks, cyclesBelowDirtyBlockTreshold, totalCycles, ready>>
migVars == <<ongoingMigrationsWg, moving, finalDirtyBlocks, samples>>
needVars == <<storageSize, blockSize, prioritised, removed, needCall>>
\* The per-device handlers MigrateTo registers work on state of their own.
lockVars == <<gateLocked, lockTrace, lockPc, lockCycles>>
handlerVars == <<needVars, lockVars>>
\* What the dirty-sync controller and MigrateFrom never write.
closeVars == <<deviceCloseFuncs, deviceCloseFuncsLock, closePc, closeRange,
               closeIdx, deferred, closeTrace, closeErrs>>
\* The runner and its agent server.
resumeVars == <<resumeVersion, hypervisorCtxDone, rescueCtxDone,
                firecrackerCtxDone, ongoingResumeWg, waiterPc, resumePc,
                suspendOnPanicWithError, agent, acceptingAgent, resumeFailedAt,
                resumeTrace>>
acceptVars == <<acceptPc, closed, lisClosed, acceptCtxDone, readyCtxDone,
                remoteCtxDone, connClosed, watcherPc, closerPc,
                acceptingAgentServer, acceptErrs>>
runnerVars == <<resumeVars, acceptVars>>
cfgVars == <<impl, migrateToDevice, handlerVars, closeVars, runnerVars>>
schemaVars == <<input, ds>>
stageVars == <<stage4Inputs, stage4Pos, stage5Inputs, tos>>
fromVars == <<devices, stage2Inputs, errs, internalCtxDone,
              allRemoteDevicesReceived, migrateFrom, schemaVars, stageVars>>
dstVars == <<receivedButNotReadyRemoteDevices, allRemoteDevicesReady,
             dstAuthority, dstCompleted, fromVars>>

Min(a, b) == IF a < b THEN a ELSE b

Goto(d, l) == pc' = [pc EXCEPT ![d] = l]

Bump(f) == obs' = [obs EXCEPT ![f] = @ + 1]

BumpDev(f, d) == obs' = [obs EXCEPT ![f] = [@ EXCEPT ![d] = @ + 1]]

Send(d, e) == evQ' = [evQ EXCEPT ![d] = Append(@, e)]

\* The function of device d leaves its dirty loop (break or return): the loop's
\* local variables go out of scope.
Leave(d, l) ==
    /\ pc' = [pc EXCEPT ![d] = l]
    /\ blocks' = [blocks EXCEPT ![d] = 0]
    /\ cyclesBelowDirtyBlockTreshold' =
           [cyclesBelowDirtyBlockTreshold EXCEPT ![d] = 0]
    /\ totalCycles' = [totalCycles EXCEPT ![d] = 0]
    /\ UNCHANGED ready

\* The function of device d stays in its dirty loop.
Stay(d, l) ==
    /\ pc' = [pc EXCEPT ![d] = l]
    /\ UNCHANGED loopVars

ZeroObs ==
    [OnBeforeSuspend |-> 0, SuspendAndCloseAgentServer |-> 0, FinalMsync |-> 0,
     OnAfterSuspend |-> 0, SetSuspended |-> 0, AllDevicesSent |-> 0,
     SuspendAndMsync |-> 0, AuthorityTransfer |-> 0,
     TransferAuthority |-> [d \in Devices |-> 0],
     Completed |-> [d \in Devices |-> 0],
     DevInfo |-> [d \in Devices |-> 0],
     OnRemoteDeviceReceived |-> [d \in Devices |-> 0],
     OnRemoteDeviceExposed |-> [d \in Devices |-> 0],
     OnRemoteAllMigrationsCompleted |-> 0,
     CreateSnapshot |-> 0,
     LoopMsyncFailed |-> 0,
     LoopMsyncFor |-> {},
     LoopMsyncSuspended |-> FALSE,
     DirtyList |-> [d \in Devices |-> 0],
     Written |-> {},
     OnLocalDeviceExposed |-> [d \in Devices |-> 0]]

\* Paths are sequences of characters; " " is white space.
Chars == {" ", "b"}
Paths == UNION {[1..n -> Chars] : n \in 0..MaxPathLen}
BasePath == <<"b">>

\* strings.TrimSpace
RECURSIVE TrimLeft(_)
TrimLeft(s) == IF s # <<>> /\ Head(s) = " " THEN TrimLeft(Tail(s)) ELSE s

RECURSIVE TrimRight(_)
TrimRight(s) ==
    IF s # <<>> /\ s[Len(s)] = " " THEN TrimRight(SubSeq(s, 1, Len(s) - 1)) ELSE s

TrimSpace(s) == TrimRight(TrimLeft(s))

\* A MigrateFrom call that lists every device with a base, waiting for the
\* remote devices.
AllDevicesListed ==
    <<[Name |-> "memory", Base |-> BasePath], [Name |-> "disk", Base |-> BasePath]>>

\* No schema was built yet.
NoSource == [Name |-> <<>>, System |-> "none", Location |-> <<>>]
NoSchema ==
    [Name |-> "", System |-> "none", Location |-> <<>>, ROSource |-> NoSource,
     err |-> "nil"]

NoCall == [op |-> "none", offset |-> 0, length |-> 0, blocks |-> {}]

\* No NeedAt or DontNeedAt was handled yet.
InitNeedIdle ==
    /\ storageSize = 1
    /\ blockSize = 1
    /\ prioritised = {}
    /\ removed = {}
    /\ needCall = NoCall

\* The migrator of no device called its lock handlers yet.
InitLockIdle ==
    /\ gateLocked = [d \in Devices |-> FALSE]
    /\ lockTrace = [d \in Devices |-> <<>>]
    /\ lockPc = [d \in Devices |-> "idle"]
    /\ lockCycles = [d \in Devices |-> 0]

\* migratedPeer.Close was not called and no remote device registered its
\* close functions.
InitCloseIdle ==
    /\ deviceCloseFuncs = <<>>
    /\ deviceCloseFuncsLock = FALSE
    /\ closePc = "idle"
    /\ closeRange = <<>>
    /\ closeIdx = 0
    /\ deferred = <<>>
    /\ closeTrace = <<>>
    /\ closeErrs = <<>>

ResumeCalls == 1..MaxResumeCalls

\* The fields of a fresh &AcceptingAgentServer{}.
NoFields == [Remote |-> FALSE, Wait |-> FALSE, Close |-> FALSE]

\* No call of Resume was made on the runner.
InitResumeIdle ==
    /\ resumeVersion = "resume.go"
    /\ hypervisorCtxDone = FALSE
    /\ rescueCtxDone = FALSE
    /\ firecrackerCtxDone = FALSE
    /\ ongoingResumeWg = 0
    /\ waiterPc = "hypervisorCtx"
    /\ resumePc = [c \in ResumeCalls |-> "idle"]
    /\ suspendOnPanicWithError = [c \in ResumeCalls |-> FALSE]
    /\ agent = [c \in ResumeCalls |-> FALSE]
    /\ acceptingAgent = [c \in ResumeCalls |-> "nil"]
    /\ resumeFailedAt = [c \in ResumeCalls |-> "none"]
    /\ resumeTrace = [c \in ResumeCalls |-> <<>>]

\* The agent server was started and Accept was not called.
InitAcceptIdle ==
    /\ acceptPc = "idle"
    /\ closed = FALSE
    /\ lisClosed = FALSE
    /\ acceptCtxDone = FALSE
    /\ readyCtxDone = FALSE
    /\ remoteCtxDone = FALSE
    /\ connClosed = FALSE
    /\ watcherPc = "none"
    /\ closerPc = "none"
    /\ acceptingAgentServer = NoFields
    /\ acceptErrs = "none"

InitRunnerIdle == InitResumeIdle /\ InitAcceptIdle

InitHandlersIdle == InitNeedIdle /\ InitLockIdle /\ InitCloseIdle /\ InitRunnerIdle

\* MigrateTo built its stages and opened a to-protocol for both devices.
InitStaged ==
    /\ InitHandlersIdle
    /\ stage4Inputs = <<"memory", "disk">>
    /\ stage4Pos = 2
    /\ stage5Inputs = <<"memory", "disk">>
    /\ tos = {[pos |-> 1, name |-> "memory", index |-> 0],
              [pos |-> 2, name |-> "disk", index |-> 1]}

InitSchemaIdle ==
    /\ InitStaged
    /\ input = [Name |-> "memory", Base |-> BasePath, Overlay |-> <<>>,
                State |-> <<>>, Shared |-> FALSE]
    /\ ds = NoSchema

InitMigrateFrom ==
    /\ InitSchemaIdle
    /\ devices = AllDevicesListed
    /\ stage2Inputs = {}
    /\ errs = {}
    /\ internalCtxDone = FALSE
    /\ allRemoteDevicesReceived = FALSE
    /\ migrateFrom = "select_received"

\* MigrateFrom after it admitted every remote device and handled
\* AllDevicesSent: it waits for the devices to become ready.
InitAdmitted ==
    /\ InitSchemaIdle
    /\ devices = AllDevicesListed
    /\ stage2Inputs = Devices
    /\ errs = {}
    /\ internalCtxDone = FALSE
    /\ allRemoteDevicesReceived = TRUE
    /\ migrateFrom = "select_ready"

\* The controller state MigrateTo declares, and the guest as it runs.
InitController ==
    /\ devicesLeftToTransferAuthorityFor = 0
    /\ suspendedVM = FALSE
    /\ suspendedVMCh = FALSE
    /\ onceState = "idle"
    /\ onceErr = FALSE
    /\ vmRunning = TRUE
    /\ memPending = 0
    /\ dirty = [d \in Devices |-> 0]
    /\ blocks = [d \in Devices |-> 0]
    /\ cyclesBelowDirtyBlockTreshold = [d \in Devices |-> 0]
    /\ totalCycles = [d \in Devices |-> 0]
    /\ ready = [d \in Devices |-> FALSE]
    /\ ongoingMigrationsWg = [d \in Devices |-> 0]
    /\ moving = [d \in Devices |-> 0]
    /\ finalDirtyBlocks = [d \in Devices |-> 0]
    /\ samples = <<>>
    /\ allRemoteDevicesReady = FALSE
    /\ dstAuthority = [d \in Devices |-> FALSE]
    /\ dstCompleted = [d \in Devices |-> FALSE]
    /\ AuthorityTransferCompleted = FALSE
    /\ obs = ZeroObs

\* The device config of the concurrency models: the same for every device.
FixedConfig ==
    [d \in Devices |-> [MaxDirtyBlocks |-> MaxDirtyBlocks,
                        MinCycles |-> MinCycles, MaxCycles |-> MaxCycles]]

\* SpecSend: MigrateTo was just called, no device was announced yet.
InitSend ==
    /\ impl = "peer"
    /\ migrateToDevice = FixedConfig
    /\ pc = [d \in Devices |-> "devinfo"]
    /\ devicesLeftToSend = 0
    /\ adsGoroutine = [d \in Devices |-> "none"]
    /\ evQ = [d \in Devices |-> <<>>]
    /\ devInfoQ = [d \in Devices |-> "none"]
    /\ receivedButNotReadyRemoteDevices = 0
    /\ InitMigrateFrom
    /\ InitController

\* The device that sent its DevInfo last in the run that Init continues.
LastAnnounced == "disk"

\* Spec: every device was announced and the destination admitted it (the run
\* of SpecSend in which LastAnnounced announced AllDevicesSent); each device
\* function is about to create its migrator.  The dirty loop and the handoff
\* never read the variables of the announcement.
Init ==
    /\ impl \in {"peer", "dm"}
    /\ migrateToDevice = FixedConfig
    /\ pc = [d \in Devices |-> IF impl = "peer" THEN "migrate" ELSE "dm_pre"]
    /\ devicesLeftToSend = NumDevices
    /\ adsGoroutine = [d \in Devices |-> IF d = LastAnnounced THEN "done" ELSE "none"]
    /\ evQ = [d \in Devices |-> <<>>]
    /\ devInfoQ = [d \in Devices |-> "handled"]
    /\ receivedButNotReadyRemoteDevices = NumDevices
    /\ InitAdmitted
    /\ InitController

(***************************************************************************)
(* The convergence policy of one dirty-loop cycle.                         *)
(***************************************************************************)
\* Variant: the forced branch resets the counter instead of marking the device.
PolicyStepNoForce(total, below, n, maxDirty, minC, maxC) ==
    LET t == total + 1 IN
    IF n < maxDirty
    THEN [total |-> t, below |-> below + 1, mark |-> below + 1 > minC]
    ELSE [total |-> t, below |-> 0, mark |-> FALSE]

\* Variant: the forced branch is taken one cycle early.
PolicyStepForcedEarly(total, below, n, maxDirty, minC, maxC) ==
    LET t == total + 1 IN
    IF n < maxDirty
    THEN [total |-> t, below |-> below + 1, mark |-> below + 1 > minC]
    ELSE IF t >= maxC
         THEN [total |-> t, below |-> below, mark |-> TRUE]
         ELSE [total |-> t, below |-> 0, mark |-> FALSE]

\* Variant: the device is ready as soon as the counter reaches MinCycles.
PolicyStepReadyEarly(total, below, n, maxDirty, minC, maxC) ==
    LET t == total + 1 IN
    IF n < maxDirty
    THEN [total |-> t, below |-> below + 1, mark |-> below + 1 >= minC]
    ELSE IF t > maxC
         THEN [total |-> t, below |-> below, mark |-> TRUE]
         ELSE [total |-> t, below |-> 0, mark |-> FALSE]

PolicyStep(total, below, n, maxDirty, minC, maxC) ==
    LET t == total + 1 IN
    IF n < maxDirty
    THEN [total |-> t, below |-> below + 1, mark |-> below + 1 > minC]
    ELSE IF t > maxC
         THEN [total |-> t, below |-> below, mark |-> TRUE]
         ELSE [total |-> t, below |-> 0, mark |-> FALSE]

\* Variant: every cycle that satisfies the ready condition adds to the count.
MarkCountsEveryCycle(mark, wasReady) == mark

\* The mark adds to the ready count only the first time: a sync.OnceFunc in
\* MigrateTo, the test of di.Ready in markDeviceReady.
MarkCounts(mark, wasReady) == mark /\ ~wasReady

\* The end of a cycle of device d whose sample had n blocks: the counters, and
\* markDeviceAsReadyForAuthorityTransfer (a sync.OnceFunc adding 1 to the
\* ready count).
ApplyPolicy(d, n) ==
    LET r == PolicyStep(totalCycles[d], cyclesBelowDirtyBlockTreshold[d], n,
                        migrateToDevice[d].MaxDirtyBlocks,
                        migrateToDevice[d].MinCycles,
                        migrateToDevice[d].MaxCycles)
    IN /\ totalCycles' = [totalCycles EXCEPT ![d] = r.total]
       /\ cyclesBelowDirtyBlockTreshold' =
              [cyclesBelowDirtyBlockTreshold EXCEPT ![d] = r.below]
       /\ ready' = [ready EXCEPT ![d] = @ \/ r.mark]
       /\ devicesLeftToTransferAuthorityFor' =
              IF MarkCounts(r.mark, ready[d])
              THEN devicesLeftToTransferAuthorityFor + 1
              ELSE devicesLeftToTransferAuthorityFor

\* SpecPolicy: the dirty loop of the memory device seen from its policy alone.
\* The device config is any within the ranges; a cycle ends with a sample of any
\* size within the range.
PolicyConfigs ==
    [MaxDirtyBlocks : 0..PolMaxDirty, MinCycles : 0..PolMaxMin,
     MaxCycles : 0..PolMaxMax]

InitPolicy ==
    /\ impl = "policy"
    /\ migrateToDevice \in [Devices -> PolicyConfigs]
    /\ \A d \in Devices : migrateToDevice[d] = migrateToDevice[MemoryName]
    /\ pc = [d \in Devices |-> "count"]
    /\ devicesLeftToSend = NumDevices
    /\ adsGoroutine = [d \in Devices |-> "none"]
    /\ evQ = [d \in Devices |-> <<>>]
    /\ devInfoQ = [d \in Devices |-> "handled"]
    /\ receivedButNotReadyRemoteDevices = NumDevices
    /\ InitAdmitted
    /\ InitController

PolicyCycle(n) ==
    /\ impl = "policy"
    /\ Len(samples) < PolMaxCycle
    /\ samples' = Append(samples, n)
    /\ ApplyPolicy(MemoryName, n)
    /\ UNCHANGED <<cfgVars, pc, devicesLeftToSend, suspendedVM, suspendedVMCh,
                   onceState, onceErr, guestVars, blocks, ongoingMigrationsWg,
                   moving, finalDirtyBlocks, adsGoroutine, evQ, devInfoQ,
                   dstVars, AuthorityTransferCompleted, obs>>

NextPolicy == \E n \in 0..PolMaxSample : PolicyCycle(n)

SpecPolicy == InitPolicy /\ [][NextPolicy]_vars

(***************************************************************************)
(* The guest and the hypervisor.                                           *)
(***************************************************************************)
\* A running guest writes a block of a disk-like device, or a memory page.
GuestWrite(d) ==
    /\ vmRunning
    /\ IF d = MemoryName
       THEN /\ memPending = 0
            /\ memPending' = 1
            /\ UNCHANGED dirty
       ELSE /\ dirty[d] < NumBlocks
            /\ dirty' = [dirty EXCEPT ![d] = @ + 1]
            /\ UNCHANGED memPending
    /\ obs' = [obs EXCEPT !.Written = @ \cup {d}]
    /\ UNCHANGED <<cfgVars, pc, srcShared, vmRunning, loopVars, migVars,
                   adsGoroutine, evQ, devInfoQ, dstVars, AuthorityTransferCompleted>>

\* Msync writes the pending memory pages through to the memory device.
MsyncFlush ==
    /\ dirty' = [dirty EXCEPT ![MemoryName] = Min(@ + memPending, NumBlocks)]
    /\ memPending' = 0

(***************************************************************************)
(* MigratablePeer.MigrateTo: the function ConcurrentMap runs per device.   *)
(***************************************************************************)
\* to.SendDevInfo; only if it returned nil: the OnDeviceSent hook and
\* devicesLeftToSend.Add(1).
SendDevInfo(d) ==
    /\ impl = "peer"
    /\ pc[d] = "devinfo"
    /\ \/ /\ devInfoQ' = [devInfoQ EXCEPT ![d] = "sent"]
          /\ BumpDev("DevInfo", d)
          /\ devicesLeftToSend' = devicesLeftToSend + 1
          /\ Goto(d, "sent_load")
       \/ /\ Goto(d, "failed")
          /\ UNCHANGED <<devInfoQ, obs, devicesLeftToSend>>
    /\ UNCHANGED <<cfgVars, devicesLeftToTransferAuthorityFor, suspendedVM,
                   suspendedVMCh, onceState, onceErr, guestVars, loopVars,
                   migVars, adsGoroutine, evQ, dstVars,
                   AuthorityTransferCompleted>>

\* Variant: the announcement test is off by one.
AllSentOffByOne(loaded, n) == loaded >= n - 1

\* The test that decides whether this device announces AllDevicesSent.
AllSent(loaded, n) == loaded >= n

\* if devicesLeftToSend.Load() >= len(stage5Inputs) { start the goroutine }
LoadDevicesSent(d) ==
    /\ pc[d] = "sent_load"
    /\ adsGoroutine' = [adsGoroutine EXCEPT ![d] =
                          IF AllSent(devicesLeftToSend, NumDevices)
                          THEN "started" ELSE @]
    /\ Goto(d, "migrate")
    /\ UNCHANGED <<cfgVars, srcShared, guestVars, loopVars, migVars, evQ,
                   devInfoQ, dstVars,  AuthorityTransferCompleted,
                   obs>>

\* The goroutine: to.SendEvent(AllDevicesSent), then the OnAllDevicesSent hook;
\* a send error panics, which stops all goroutines.
RunAllDevicesSent(d) ==
    /\ adsGoroutine[d] = "started"
    /\ adsGoroutine' = [adsGoroutine EXCEPT ![d] = "done"]
    /\ \/ /\ Send(d, "AllDevicesSent")
          /\ Bump("AllDevicesSent")
       \/ UNCHANGED <<evQ, obs>>
    /\ UNCHANGED <<cfgVars, pc, srcShared, guestVars, loopVars, migVars,
                   devInfoQ, dstVars, AuthorityTransferCompleted>>

\* NewMigrator, mig.Migrate(totalBlocks) and mig.WaitForCompletion: the precopy.
Precopy(d) ==
    /\ pc[d] = "migrate"
    /\ \/ Goto(d, "loop_msync")
       \/ Goto(d, "failed")
    /\ UNCHANGED <<cfgVars, srcShared, guestVars, loopVars, migVars, adsGoroutine,
                   evQ, devInfoQ, dstVars, AuthorityTransferCompleted, obs>>

\* Variant: the loop calls Msync for every device.
LoopMsyncDueAnyDevice(susp, d) == ~susp

\* if !suspendedVM && input.prev.prev.name == packager.MemoryName
LoopMsyncDue(susp, d) == ~susp /\ d = MemoryName

\* A call of resumedRunner.Msync made by the dirty loop of device d, as the
\* observer sees it.
LoopMsyncCalled(d, failed) ==
    obs' = [obs EXCEPT !.LoopMsyncFor = @ \cup {d},
                       !.LoopMsyncSuspended = @ \/ suspendedVM,
                       !.LoopMsyncFailed = @ + (IF failed THEN 1 ELSE 0)]

\* Head of the loop: under suspendedVMLock, Msync for the memory device while
\* the VM is not marked suspended; an error of Msync is returned.
LoopMsync(d) ==
    /\ pc[d] = "loop_msync"
    /\ IF LoopMsyncDue(suspendedVM, d)
       THEN \/ /\ MsyncFlush
               /\ LoopMsyncCalled(d, FALSE)
               /\ Stay(d, "sample")
            \/ /\ LoopMsyncCalled(d, TRUE)
               /\ Leave(d, "failed")
               /\ UNCHANGED <<dirty, memPending>>
       ELSE /\ Stay(d, "sample")
            /\ UNCHANGED <<dirty, memPending, obs>>
    /\ UNCHANGED <<cfgVars, srcShared, vmRunning, migVars, adsGoroutine,
                   evQ, devInfoQ, dstVars, AuthorityTransferCompleted>>

\* Variant: the sample is handed to the migrator without a DirtyList frame.
DirtyListSkipped(d) == UNCHANGED obs

\* to.DirtyList(blockSize, blocks) returned nil: the frame is on the stream.
DirtyList(d) == BumpDev("DirtyList", d)

\* Variant: the loop does not wait for the goroutine of the previous sample.
WaitGroupWaitSkipped(n) == TRUE

\* ongoingMigrationsWg.Wait() returns when the counter is zero.
WaitGroupWait(n) == n = 0

\* ongoingMigrationsWg.Wait(); blocks := mig.GetLatestDirty().  A nil sample
\* leaves the source locked, so mig.Unlock() follows at once; a non-nil sample
\* is announced with to.DirtyList and handed to a goroutine (wg.Add(1)).
Sample(d) ==
    /\ pc[d] = "sample"
    /\ WaitGroupWait(ongoingMigrationsWg[d])
    /\ dirty' = [dirty EXCEPT ![d] = 0]
    /\ IF dirty[d] = 0
       THEN /\ Goto(d, "check_susp")
            /\ blocks' = [blocks EXCEPT ![d] = 0]
            /\ UNCHANGED <<cyclesBelowDirtyBlockTreshold, totalCycles, ready,
                           ongoingMigrationsWg, obs>>
       ELSE \/ /\ DirtyList(d)
               /\ ongoingMigrationsWg' = [ongoingMigrationsWg EXCEPT ![d] = @ + 1]
               /\ Goto(d, "throttle_check")
               /\ blocks' = [blocks EXCEPT ![d] = dirty[d]]
               /\ UNCHANGED <<cyclesBelowDirtyBlockTreshold, totalCycles, ready>>
            \/ /\ Leave(d, "failed")
               /\ UNCHANGED <<ongoingMigrationsWg, obs>>
    /\ UNCHANGED <<cfgVars, srcShared, vmRunning, memPending, moving,
                   finalDirtyBlocks, samples, adsGoroutine, evQ,
                   devInfoQ, dstVars, AuthorityTransferCompleted>>

\* Variant: a nil sample ends the loop whatever the suspended flag says.
MayLeaveLoopAlways(susp) == TRUE

\* Variant: a nil sample never ends the loop.
MayLeaveLoopNever(susp) == FALSE

\* The exit test of the loop, made on a nil sample.
MayLeaveLoop(susp) == susp

\* if blocks == nil { ...; if suspendedVM { break } }
CheckSuspended(d) ==
    /\ pc[d] = "check_susp"
    /\ IF MayLeaveLoop(suspendedVM)
       THEN Leave(d, "send_ta")
       ELSE Stay(d, "throttle_check")
    /\ UNCHANGED <<cfgVars, srcShared, guestVars, migVars, adsGoroutine,
                   evQ, devInfoQ, dstVars, AuthorityTransferCompleted, obs>>

\* The goroutine of one sample: mig.MigrateDirty(blocks); the deferred
\* Done() runs whether it returned or panicked.
MigrateDirtyGoroutine(d) ==
    /\ impl = "peer"
    /\ ongoingMigrationsWg[d] > 0
    /\ ongoingMigrationsWg' = [ongoingMigrationsWg EXCEPT ![d] = @ - 1]
    /\ UNCHANGED <<cfgVars, pc, srcShared, guestVars, loopVars, moving,
                   finalDirtyBlocks, samples, adsGoroutine, evQ,
                   devInfoQ, dstVars, AuthorityTransferCompleted, obs>>

\* if !suspendedVM && !(devicesLeftToTransferAuthorityFor.Load() >= N) { wait }
ThrottleCheck(d) ==
    /\ pc[d] = "throttle_check"
    /\ Goto(d, IF ~suspendedVM /\ ~(devicesLeftToTransferAuthorityFor >= NumDevices)
               THEN "throttle_wait" ELSE "count")
    /\ UNCHANGED <<cfgVars, srcShared, guestVars, loopVars, migVars, adsGoroutine,
                   evQ, devInfoQ, dstVars, AuthorityTransferCompleted, obs>>

\* The timer of a waiting device fires: cycleThrottleCtx is done in
\* MigratablePeer.MigrateTo, time.Sleep(di.CycleThrottle) returns in
\* DirtyManager.PostMigrateDirty.
CycleThrottleElapsed(d) ==
    /\ pc[d] \in {"throttle_wait", "dm_sleep"}
    /\ Goto(d, IF pc[d] = "throttle_wait" THEN "throttle_elapsed" ELSE "dm_slept")
    /\ UNCHANGED <<cfgVars, srcShared, guestVars, loopVars, migVars, adsGoroutine,
                   evQ, devInfoQ, dstVars, AuthorityTransferCompleted, obs>>

\* Variant: the select has no case for the context, the device goes on.
ContextDoneIgnored(d) == Stay(d, "count")

\* case <-goroutineManager.Context().Done(): return
\* errors.Join(ErrPeerContextCancelled, err)
ContextDone(d) == Leave(d, "cancelled")

\* select: the cycle throttle elapsed or suspendedVMCh closed (go on), or the
\* context is done (return ErrPeerContextCancelled): the caller or a panic of
\* another goroutine may cancel it at any time.
ThrottleWait(d) ==
    /\ pc[d] \in {"throttle_wait", "throttle_elapsed"}
    /\ \/ /\ pc[d] = "throttle_elapsed" \/ suspendedVMCh
          /\ Stay(d, "count")
       \/ ContextDone(d)
    /\ UNCHANGED <<cfgVars, srcShared, guestVars, migVars, adsGoroutine,
                   evQ, devInfoQ, dstVars, AuthorityTransferCompleted, obs>>

\* totalCycles++ and the convergence policy; markDeviceAsReadyForAuthorityTransfer
\* is a sync.OnceFunc around devicesLeftToTransferAuthorityFor.Add(1).
Count(d) ==
    /\ pc[d] = "count"
    /\ totalCycles[d] < CycleCap
    /\ ApplyPolicy(d, blocks[d])
    /\ Goto(d, "susp_check")
    /\ UNCHANGED <<cfgVars, devicesLeftToSend, suspendedVM, suspendedVMCh,
                   onceState, onceErr, guestVars, blocks, migVars, adsGoroutine,
                   evQ, devInfoQ, dstVars, AuthorityTransferCompleted, obs>>

(***************************************************************************)
(* suspendAndMsyncVM := sync.OnceValue(func() error { ... })               *)
(***************************************************************************)
\* Variant: a plain function in place of sync.OnceValue.
OnceAlwaysRuns(st) == st # "running"

\* sync.OnceValue lets a caller run the function only while it never ran.
OnceMayRun(st) == st = "idle"

\* Variant: the guard is off by one.
AllReadyOffByOne(loaded, n) == loaded >= n - 1

\* The test that guards the call of suspendAndMsyncVM.
AllReady(loaded, n) == loaded >= n

\* if devicesLeftToTransferAuthorityFor.Load() >= N { suspendAndMsyncVM() }
\* The first caller runs the function, starting with the OnBeforeSuspend hook;
\* a caller arriving while it runs blocks; a later caller gets the cached
\* result.  The counter never decreases, so the call is taken with the Load.
SuspCheck(d) ==
    /\ pc[d] = "susp_check"
    /\ IF AllReady(devicesLeftToTransferAuthorityFor, NumDevices)
       THEN \/ /\ OnceMayRun(onceState)
               /\ onceState' = "running"
               /\ Bump("OnBeforeSuspend")
               /\ Stay(d, "s_agent")
               /\ UNCHANGED onceErr
            \/ /\ ~OnceMayRun(onceState)
               /\ onceState = "done"
               /\ IF onceErr THEN Leave(d, "failed") ELSE Stay(d, "loop_msync")
               /\ UNCHANGED <<onceState, onceErr, obs>>
       ELSE /\ Stay(d, "loop_msync")
            /\ UNCHANGED <<onceState, onceErr, obs>>
    /\ UNCHANGED <<cfgVars, devicesLeftToSend, devicesLeftToTransferAuthorityFor,
                   suspendedVM, suspendedVMCh, guestVars, migVars,
                   adsGoroutine, evQ, devInfoQ, dstVars,
                   AuthorityTransferCompleted>>

\* SuspendAndCloseAgentServer: BeforeSuspend RPC, close the agent, snapshot;
\* on success the guest is paused.
SuspendAgent(d) ==
    /\ pc[d] = "s_agent"
    /\ \/ /\ vmRunning' = FALSE
          /\ obs' = [obs EXCEPT !.SuspendAndCloseAgentServer = @ + 1,
                                !.CreateSnapshot = @ + 1]
          /\ Stay(d, "s_msync")
          /\ UNCHANGED <<onceState, onceErr>>
       \/ /\ vmRunning' \in {vmRunning, FALSE}
          /\ onceState' = "done"
          /\ onceErr' = TRUE
          /\ Leave(d, "failed")
          /\ UNCHANGED obs
    /\ UNCHANGED <<cfgVars, devicesLeftToSend, devicesLeftToTransferAuthorityFor,
                   suspendedVM, suspendedVMCh, memPending, dirty,
                   migVars, adsGoroutine, evQ, devInfoQ, dstVars,
                   AuthorityTransferCompleted>>

\* The final resumedRunner.Msync of the suspend sequence.
SuspendMsync(d) ==
    /\ pc[d] = "s_msync"
    /\ \/ /\ MsyncFlush
          /\ Bump("FinalMsync")
          /\ Stay(d, "s_after")
          /\ UNCHANGED <<onceState, onceErr>>
       \/ /\ onceState' = "done"
          /\ onceErr' = TRUE
          /\ Leave(d, "failed")
          /\ UNCHANGED <<memPending, dirty, obs>>
    /\ UNCHANGED <<cfgVars, devicesLeftToSend, devicesLeftToTransferAuthorityFor,
                   suspendedVM, suspendedVMCh, vmRunning, migVars,
                   adsGoroutine, evQ, devInfoQ, dstVars,
                   AuthorityTransferCompleted>>

\* Variant: the suspend sequence goes on to set the flag without calling the
\* OnAfterSuspend hook first.
SuspendAfterHookDeferred(d) ==
    /\ pc[d] = "s_after"
    /\ Goto(d, "s_set")
    /\ UNCHANGED <<cfgVars, srcShared, guestVars, loopVars, migVars, adsGoroutine,
                   evQ, devInfoQ, dstVars, AuthorityTransferCompleted, obs>>

\* The OnAfterSuspend hook.
SuspendAfterHook(d) ==
    /\ pc[d] = "s_after"
    /\ Bump("OnAfterSuspend")
    /\ Goto(d, "s_set")
    /\ UNCHANGED <<cfgVars, srcShared, guestVars, loopVars, migVars, adsGoroutine,
                   evQ, devInfoQ, dstVars, 
                   AuthorityTransferCompleted>>

\* suspendedVMLock.Lock(); suspendedVM = true; suspendedVMLock.Unlock()
SuspendSetFlag(d) ==
    /\ pc[d] = "s_set"
    /\ suspendedVM' = TRUE
    /\ Bump("SetSuspended")
    /\ Goto(d, "s_close")
    /\ UNCHANGED <<cfgVars, devicesLeftToSend, devicesLeftToTransferAuthorityFor,
                   suspendedVMCh, onceState, onceErr, guestVars, loopVars,
                   migVars, adsGoroutine, evQ, devInfoQ, dstVars, 
                   AuthorityTransferCompleted>>

\* close(suspendedVMCh); return nil: the OnceValue is done, the caller goes on.
SuspendClose(d) ==
    /\ pc[d] = "s_close"
    /\ suspendedVMCh' = TRUE
    /\ onceState' = "done"
    /\ Goto(d, IF impl = "dm" THEN "dm_transfer" ELSE "loop_msync")
    /\ UNCHANGED <<cfgVars, devicesLeftToSend, devicesLeftToTransferAuthorityFor,
                   suspendedVM, onceErr, guestVars, loopVars, migVars,
                   adsGoroutine, evQ, devInfoQ, dstVars, AuthorityTransferCompleted, obs>>

(***************************************************************************)
(* DirtyManager: the hooks the device group's dirty loop calls per device, *)
(* in the order PreGetDirty, sample, PostGetDirty, migrate the sample,     *)
(* PostMigrateDirty.  dm.VMState wraps checkSuspendedVM and the OnceValue  *)
(* suspendAndMsyncVM; len(dm.ReadyDevices) is kept in                      *)
(* devicesLeftToTransferAuthorityFor, di.Ready in ready.                   *)
(***************************************************************************)
\* PreGetDirty: Msync for the memory device while the VM is not suspended.
PreGetDirty(d) ==
    /\ impl = "dm"
    /\ pc[d] = "dm_pre"
    /\ IF LoopMsyncDue(suspendedVM, d)
       THEN \/ /\ MsyncFlush
               /\ LoopMsyncCalled(d, FALSE)
               /\ Stay(d, "dm_sample")
            \/ /\ LoopMsyncCalled(d, TRUE)
               /\ Leave(d, "failed")
               /\ UNCHANGED <<dirty, memPending>>
       ELSE /\ Stay(d, "dm_sample")
            /\ UNCHANGED <<dirty, memPending, obs>>
    /\ UNCHANGED <<cfgVars, srcShared, vmRunning, migVars, adsGoroutine,
                   evQ, devInfoQ, dstVars, AuthorityTransferCompleted>>

\* The loop samples the dirty blocks of the device (GetLatestDirty).
DMGetDirty(d) ==
    /\ pc[d] = "dm_sample"
    /\ blocks' = [blocks EXCEPT ![d] = dirty[d]]
    /\ dirty' = [dirty EXCEPT ![d] = 0]
    /\ Goto(d, "dm_postget")
    /\ UNCHANGED <<cfgVars, srcShared, vmRunning, memPending,
                   cyclesBelowDirtyBlockTreshold, totalCycles, ready, migVars,
                   adsGoroutine, evQ, devInfoQ, dstVars,
                   AuthorityTransferCompleted, obs>>

\* PostGetDirty's answer: FALSE ends the dirty sync of the device.
PostGetDirtyContinue(n, susp) == ~(n = 0 /\ susp)

\* PostGetDirty; if it says continue, the loop migrates the sample, which can
\* fail.
PostGetDirty(d) ==
    /\ pc[d] = "dm_postget"
    /\ IF PostGetDirtyContinue(blocks[d], suspendedVM)
       THEN \/ Stay(d, "dm_sleep")
            \/ /\ blocks[d] > 0
               /\ Leave(d, "failed")
       ELSE Leave(d, "done")
    /\ UNCHANGED <<cfgVars, srcShared, guestVars, migVars, adsGoroutine,
                   evQ, devInfoQ, dstVars, AuthorityTransferCompleted, obs>>

\* PostMigrateDirty: time.Sleep(di.CycleThrottle); if the VM is suspended
\* return, all done.
DMSleep(d) ==
    /\ pc[d] = "dm_slept"
    /\ Stay(d, IF suspendedVM THEN "dm_pre" ELSE "dm_count")
    /\ UNCHANGED <<cfgVars, srcShared, guestVars, migVars, adsGoroutine,
                   evQ, devInfoQ, dstVars, AuthorityTransferCompleted, obs>>

\* PostMigrateDirty: di.TotalCycles++, the convergence policy, markDeviceReady.
DMCount(d) ==
    /\ pc[d] = "dm_count"
    /\ totalCycles[d] < CycleCap
    /\ ApplyPolicy(d, blocks[d])
    /\ Goto(d, "dm_ready")
    /\ UNCHANGED <<cfgVars, devicesLeftToSend, suspendedVM, suspendedVMCh,
                   onceState, onceErr, guestVars, blocks, migVars, adsGoroutine,
                   evQ, devInfoQ, dstVars, AuthorityTransferCompleted, obs>>

\* The test on the number of ready devices.
DMAllReady(readyDevices, n) == readyDevices = n

\* The latch: only a caller that finds AuthorityTransferCompleted unset goes on.
DMLatchFree(c) == ~c

\* PostMigrateDirty: if readyDevices == len(dm.Devices), test and set
\* AuthorityTransferCompleted under AuthorityTransferLock.  The number of ready
\* devices never decreases, so the latch is taken with the read.
DMCheckReady(d) ==
    /\ pc[d] = "dm_ready"
    /\ IF /\ DMAllReady(devicesLeftToTransferAuthorityFor, NumDevices)
          /\ DMLatchFree(AuthorityTransferCompleted)
       THEN /\ AuthorityTransferCompleted' = TRUE
            /\ Goto(d, "dm_suspend")
       ELSE /\ Goto(d, "dm_pre")
            /\ UNCHANGED AuthorityTransferCompleted
    /\ UNCHANGED <<cfgVars, srcShared, guestVars, loopVars, migVars, adsGoroutine,
                   evQ, devInfoQ, dstVars, obs>>

\* err := dm.VMState.SuspendAndMsync(): a call of the OnceValue.
DMSuspendAndMsync(d) ==
    /\ pc[d] = "dm_suspend"
    /\ \/ /\ OnceMayRun(onceState)
          /\ onceState' = "running"
          /\ obs' = [obs EXCEPT !.SuspendAndMsync = @ + 1,
                                !.OnBeforeSuspend = @ + 1]
          /\ Stay(d, "s_agent")
          /\ UNCHANGED onceErr
       \/ /\ ~OnceMayRun(onceState)
          /\ onceState = "done"
          /\ obs' = [obs EXCEPT !.SuspendAndMsync = @ + 1]
          /\ IF onceErr THEN Leave(d, "failed") ELSE Stay(d, "dm_transfer")
          /\ UNCHANGED <<onceState, onceErr>>
    /\ UNCHANGED <<cfgVars, devicesLeftToSend, devicesLeftToTransferAuthorityFor,
                   suspendedVM, suspendedVMCh, guestVars, migVars,
                   adsGoroutine, evQ, devInfoQ, dstVars,
                   AuthorityTransferCompleted>>

\* err = dm.AuthorityTransfer(), called only after SuspendAndMsync returned nil.
DMAuthorityTransfer(d) ==
    /\ pc[d] = "dm_transfer"
    /\ Bump("AuthorityTransfer")
    /\ \/ Stay(d, "dm_pre")
       \/ Leave(d, "failed")
    /\ UNCHANGED <<cfgVars, srcShared, guestVars, migVars, adsGoroutine,
                   evQ, devInfoQ, dstVars, AuthorityTransferCompleted>>

(***************************************************************************)
(* After the loop: the handoff of one device.                              *)
(***************************************************************************)
\* Variant: the device goes on to WaitForCompletion without sending the event.
SendTransferAuthoritySkipped(d) ==
    /\ pc[d] = "send_ta"
    /\ Goto(d, "final_wait")
    /\ UNCHANGED <<cfgVars, srcShared, guestVars, loopVars, migVars, adsGoroutine,
                   evQ, devInfoQ, dstVars, AuthorityTransferCompleted, obs>>

\* to.SendEvent(Custom(TransferAuthority)); a send error panics.
SendTransferAuthority(d) ==
    /\ pc[d] = "send_ta"
    /\ \/ /\ Send(d, "TransferAuthority")
          /\ BumpDev("TransferAuthority", d)
          /\ Goto(d, "final_wait")
       \/ /\ Goto(d, "failed")
          /\ UNCHANGED <<evQ, obs>>
    /\ UNCHANGED <<cfgVars, srcShared, guestVars, loopVars, migVars, adsGoroutine,
                   devInfoQ, dstVars, AuthorityTransferCompleted>>

\* mig.WaitForCompletion() after the authority transfer.
FinalWait(d) ==
    /\ pc[d] = "final_wait"
    /\ moving[d] = 0
    /\ \/ Goto(d, "send_completed")
       \/ Goto(d, "failed")
    /\ UNCHANGED <<cfgVars, srcShared, guestVars, loopVars, migVars,
                   adsGoroutine, evQ, devInfoQ, dstVars,
                   AuthorityTransferCompleted, obs>>

\* to.SendEvent(Completed), then the OnDeviceMigrationCompleted hook.
SendCompleted(d) ==
    /\ pc[d] = "send_completed"
    /\ \/ /\ Send(d, "Completed")
          /\ BumpDev("Completed", d)
          /\ Goto(d, "done")
       \/ /\ Goto(d, "failed")
          /\ UNCHANGED <<evQ, obs>>
    /\ UNCHANGED <<cfgVars, srcShared, guestVars, loopVars, migVars,
                   adsGoroutine, devInfoQ, dstVars, AuthorityTransferCompleted>>

(***************************************************************************)
(* The destination: handlers of the from-protocol of one device.           *)
(***************************************************************************)
\* The DevInfo callback: receivedButNotReadyRemoteDevices.Add(1).
RECURSIVE BaseOf(_, _)
BaseOf(devs, name) ==
    IF devs = <<>> THEN <<>>
    ELSE IF Head(devs).Name = name THEN Head(devs).Base
    ELSE BaseOf(Tail(devs), name)

\* Variant: the base is tested without trimming it.
AdmissibleUntrimmed(base) == base # <<>>

\* if strings.TrimSpace(base) == "" { panic(ErrUnknownDeviceName) }
Admissible(base) == TrimSpace(base) # <<>>

\* A panic in a goroutine of MigrateFrom: the panic handler joins the error into
\* errs and cancels internalCtx.
Recover(e) ==
    /\ errs' = errs \cup {e}
    /\ internalCtxDone' = TRUE

HandleDevInfo(d) ==
    /\ devInfoQ[d] = "sent"
    /\ IF Admissible(BaseOf(devices, d))
       THEN /\ devInfoQ' = [devInfoQ EXCEPT ![d] = "handled"]
            /\ receivedButNotReadyRemoteDevices' =
                   receivedButNotReadyRemoteDevices + 1
            /\ stage2Inputs' = stage2Inputs \cup {d}
            /\ obs' = [obs EXCEPT
                          !.OnRemoteDeviceReceived = [@ EXCEPT ![d] = @ + 1],
                          !.OnRemoteDeviceExposed = [@ EXCEPT ![d] = @ + 1]]
            /\ UNCHANGED <<errs, internalCtxDone>>
       ELSE /\ devInfoQ' = [devInfoQ EXCEPT ![d] = "rejected"]
            /\ Recover("ErrUnknownDeviceName")
            /\ UNCHANGED <<receivedButNotReadyRemoteDevices, stage2Inputs, obs>>
    /\ UNCHANGED <<cfgVars, pc, srcShared, guestVars, loopVars, migVars,
                   adsGoroutine, evQ, allRemoteDevicesReady, dstAuthority,
                   dstCompleted, devices, allRemoteDevicesReceived, migrateFrom, schemaVars, stageVars,
                   AuthorityTransferCompleted>>

\* from.HandleEvent(func(e) { switch e.Type ... }) on the next event.
HandleEvent(d) ==
    /\ evQ[d] # <<>>
    /\ evQ' = [evQ EXCEPT ![d] = Tail(@)]
    /\ LET e == Head(evQ[d]) IN
       CASE e = "TransferAuthority" ->
              /\ receivedButNotReadyRemoteDevices' =
                     receivedButNotReadyRemoteDevices - 1
              /\ allRemoteDevicesReady' =
                     (allRemoteDevicesReady
                        \/ receivedButNotReadyRemoteDevices - 1 <= 0)
              /\ dstAuthority' = [dstAuthority EXCEPT ![d] = TRUE]
              /\ UNCHANGED <<dstCompleted, fromVars>>
         [] e = "Completed" ->
              /\ dstCompleted' = [dstCompleted EXCEPT ![d] = TRUE]
              /\ UNCHANGED <<receivedButNotReadyRemoteDevices,
                             allRemoteDevicesReady, dstAuthority, fromVars>>
         [] e = "AllDevicesSent" ->
              /\ allRemoteDevicesReceived' = TRUE
              /\ UNCHANGED <<receivedButNotReadyRemoteDevices,
                             allRemoteDevicesReady, dstAuthority, dstCompleted,
                             devices, stage2Inputs, errs, internalCtxDone,
                             migrateFrom, schemaVars, stageVars>>
    /\ UNCHANGED <<cfgVars, pc, srcShared, guestVars, loopVars, migVars,
                   adsGoroutine, devInfoQ, 
                   AuthorityTransferCompleted, obs>>

\* migratedPeer.Wait (a sync.OnceValue, started in a goroutine by MigrateFrom):
\* pro.Handle() returns when the stream has ended, and io.EOF is not an error;
\* then both contexts are cancelled and OnRemoteAllMigrationsCompleted fires.
\* The stream ends after the source's MigrateTo returned; the packets sent
\* before were handled.
Wait ==
    /\ impl \in {"peer", "dm"}
    /\ obs.OnRemoteAllMigrationsCompleted = 0
    /\ \A d \in Devices :
           /\ pc[d] \in {"done", "failed", "cancelled"}
           /\ evQ[d] = <<>>
           /\ devInfoQ[d] # "sent"
    /\ allRemoteDevicesReceived' = TRUE
    /\ allRemoteDevicesReady' = TRUE
    /\ Bump("OnRemoteAllMigrationsCompleted")
    /\ UNCHANGED <<cfgVars, pc, srcShared, guestVars, loopVars, migVars,
                   adsGoroutine, evQ, devInfoQ,
                   receivedButNotReadyRemoteDevices, dstAuthority, dstCompleted,
                   devices, stage2Inputs, errs, internalCtxDone, migrateFrom, schemaVars, stageVars,
                   AuthorityTransferCompleted>>

\* The names MigrateFrom sets up from local files: the listed devices no
\* DevInfo was admitted for.
Stage1Names ==
    {devices[i].Name : i \in 1..Len(devices)} \ stage2Inputs

\* MigrateFrom, first select: a cancelled internalCtx panics with
\* ErrPeerContextCancelled; with all remote devices received the remaining
\* listed devices are set up from their base (os.Stat fails unless the base
\* exists) and added to stage2Inputs.
MigrateFromSelectReceived ==
    /\ migrateFrom = "select_received"
    /\ \/ /\ internalCtxDone
          /\ errs' = errs \cup {"ErrPeerContextCancelled"}
          /\ migrateFrom' = "returned"
          /\ UNCHANGED <<stage2Inputs, internalCtxDone, obs>>
       \/ /\ allRemoteDevicesReceived
          /\ IF \A n \in Stage1Names : BaseOf(devices, n) = BasePath
             THEN /\ stage2Inputs' = stage2Inputs \cup Stage1Names
                  /\ obs' = [obs EXCEPT !.OnLocalDeviceExposed =
                                 [d \in Devices |->
                                     IF d \in Stage1Names THEN @[d] + 1 ELSE @[d]]]
                  /\ migrateFrom' = "select_ready"
                  /\ UNCHANGED <<errs, internalCtxDone>>
             ELSE /\ Recover("ErrCouldNotSetupDevices")
                  /\ migrateFrom' = "returned"
                  /\ UNCHANGED <<stage2Inputs, obs>>
    /\ UNCHANGED <<cfgVars, pc, srcShared, guestVars, loopVars, migVars,
                   adsGoroutine, evQ, devInfoQ,
                   receivedButNotReadyRemoteDevices, allRemoteDevicesReady,
                   dstAuthority, dstCompleted, devices, schemaVars, stageVars,
                   allRemoteDevicesReceived, AuthorityTransferCompleted>>

\* MigrateFrom, second select: a cancelled internalCtx panics, with all remote
\* devices ready MigrateFrom returns the migrated peer.
MigrateFromSelectReady ==
    /\ migrateFrom = "select_ready"
    /\ \/ /\ internalCtxDone
          /\ errs' = errs \cup {"ErrPeerContextCancelled"}
       \/ /\ allRemoteDevicesReady
          /\ UNCHANGED errs
    /\ migrateFrom' = "returned"
    /\ UNCHANGED <<cfgVars, pc, srcShared, guestVars, loopVars, migVars,
                   adsGoroutine, evQ, devInfoQ,
                   receivedButNotReadyRemoteDevices, allRemoteDevicesReady,
                   dstAuthority, dstCompleted, devices, stage2Inputs,
                   internalCtxDone, allRemoteDevicesReceived, schemaVars, stageVars,
                   AuthorityTransferCompleted, obs>>

\* The announcement of the devices, and the destination's handlers.
NextSend ==
    \/ \E d \in Devices : SendDevInfo(d)
    \/ \E d \in Devices : LoadDevicesSent(d)
    \/ \E d \in Devices : RunAllDevicesSent(d)
    \/ \E d \in Devices : HandleDevInfo(d)
    \/ \E d \in Devices : HandleEvent(d)

SpecSend == InitSend /\ [][NextSend]_vars

\* SpecFrom: the announcement as MigrateFrom sees it, for any device list of
\* at most one entry per served device.
DeviceLists ==
    UNION {[1..n -> [Name : Devices, Base : Paths]] : n \in 0..NumDevices}

InitFrom ==
    /\ impl = "peer"
    /\ migrateToDevice = FixedConfig
    /\ pc = [d \in Devices |-> "devinfo"]
    /\ devicesLeftToSend = 0
    /\ adsGoroutine = [d \in Devices |-> "none"]
    /\ evQ = [d \in Devices |-> <<>>]
    /\ devInfoQ = [d \in Devices |-> "none"]
    /\ receivedButNotReadyRemoteDevices = 0
    /\ devices \in DeviceLists
    /\ InitSchemaIdle
    /\ stage2Inputs = {}
    /\ errs = {}
    /\ internalCtxDone = FALSE
    /\ allRemoteDevicesReceived = FALSE
    /\ migrateFrom = "select_received"
    /\ InitController

NextFrom ==
    \/ NextSend
    \/ MigrateFromSelectReceived
    \/ MigrateFromSelectReady

SpecFrom == InitFrom /\ [][NextFrom]_vars

(***************************************************************************)
(* The schema of a device MigrateFrom builds from local files.             *)
(***************************************************************************)
\* Variant: the base alone is used only when overlay and state are both blank.
BaseOnlyWhenBothBlank(i) ==
    TrimSpace(i.Overlay) = <<>> /\ TrimSpace(i.State) = <<>>

\* if strings.TrimSpace(i.Overlay) == "" || strings.TrimSpace(i.State) == ""
BaseOnly(i) ==
    TrimSpace(i.Overlay) = <<>> \/ TrimSpace(i.State) = <<>>

\* The schema both MigrateFrom implementations build: os.Stat of the base,
\* then the base as a plain file, or a sparse file at the overlay path over a
\* read-only source named after the state path and located at the base.
createSiloDevSchema(i) ==
    IF i.Base # BasePath
    THEN [NoSchema EXCEPT !.err = "ErrCouldNotGetBaseDeviceStat"]
    ELSE IF BaseOnly(i)
    THEN [Name |-> i.Name, System |-> "file", Location |-> i.Base,
          ROSource |-> NoSource, err |-> "nil"]
    ELSE [Name |-> i.Name, System |-> "sparsefile", Location |-> i.Overlay,
          ROSource |-> [Name |-> i.State, System |-> "file",
                        Location |-> i.Base],
          err |-> "nil"]

\* migrateFromFS, one device: a shared device is exposed as a file without a
\* schema, any other gets the schema of createSiloDevSchema.
MigrateFromFS ==
    /\ impl = "schema"
    /\ ds = NoSchema
    /\ ds' = IF input.Shared
             THEN [NoSchema EXCEPT !.Name = input.Name, !.System = "shared"]
             ELSE createSiloDevSchema(input)
    /\ UNCHANGED <<cfgVars, pc, srcShared, guestVars, loopVars, migVars,
                   adsGoroutine, evQ, devInfoQ,
                   receivedButNotReadyRemoteDevices, allRemoteDevicesReady,
                   dstAuthority, dstCompleted, devices, stage2Inputs, errs,
                   internalCtxDone, allRemoteDevicesReceived, migrateFrom,
                   input, stageVars, AuthorityTransferCompleted, obs>>

\* Peer.MigrateFrom, one device of stage1Inputs: the same choice, made inline.
SetupLocalDevice ==
    /\ impl = "schema"
    /\ ds = NoSchema
    /\ ~input.Shared
    /\ ds' = createSiloDevSchema(input)
    /\ stage2Inputs' = IF createSiloDevSchema(input).err = "nil"
                       THEN stage2Inputs \cup {input.Name} ELSE stage2Inputs
    /\ UNCHANGED <<cfgVars, pc, srcShared, guestVars, loopVars, migVars,
                   adsGoroutine, evQ, devInfoQ,
                   receivedButNotReadyRemoteDevices, allRemoteDevicesReady,
                   dstAuthority, dstCompleted, devices, errs,
                   internalCtxDone, allRemoteDevicesReceived, migrateFrom,
                   input, stageVars, AuthorityTransferCompleted, obs>>

\* SpecSchema: one device config of any base, overlay, state and sharing.
InitSchema ==
    /\ impl = "schema"
    /\ migrateToDevice = FixedConfig
    /\ pc = [d \in Devices |-> "done"]
    /\ devicesLeftToSend = NumDevices
    /\ adsGoroutine = [d \in Devices |-> "none"]
    /\ evQ = [d \in Devices |-> <<>>]
    /\ devInfoQ = [d \in Devices |-> "none"]
    /\ receivedButNotReadyRemoteDevices = 0
    /\ devices = <<>>
    /\ stage2Inputs = {}
    /\ errs = {}
    /\ internalCtxDone = FALSE
    /\ allRemoteDevicesReceived = TRUE
    /\ migrateFrom = "stage1"
    /\ input \in [Name : Devices, Base : Paths, Overlay : Paths, State : Paths,
                   Shared : BOOLEAN]
    /\ ds = NoSchema
    /\ InitStaged
    /\ InitController

NextSchema ==
    \/ MigrateFromFS
    \/ SetupLocalDevice

SpecSchema == InitSchema /\ [][NextSchema]_vars

(***************************************************************************)
(* MigrateTo: the devices it serves and the index of their to-protocol.    *)
(***************************************************************************)
\* The names a resumed peer may hold; the last one is never a served device
\* of the other specifications.
StageNames == Devices \cup {"kernel"}

\* Variant: every device of the resumed peer is served.
ServedAlways(devs, name) == TRUE

\* The inner loop over devices: migrateToDevice != nil.
Served(devs, name) == \E i \in 1..Len(devs) : devs[i].Name = name

\* utils.ConcurrentMap calls the function of the k-th element of the slice
\* with index k - 1.
ConcurrentMapIndex(k) == k - 1

\* One iteration of the loop over migratablePeer.stage4Inputs: a device that
\* devices does not name is skipped, any other is appended to stage5Inputs.
BuildStage5 ==
    /\ impl = "stage"
    /\ stage4Pos < Len(stage4Inputs)
    /\ stage4Pos' = stage4Pos + 1
    /\ stage5Inputs' =
           IF Served(devices, stage4Inputs[stage4Pos + 1])
           THEN Append(stage5Inputs, stage4Inputs[stage4Pos + 1])
           ELSE stage5Inputs
    /\ UNCHANGED <<cfgVars, pc, srcShared, guestVars, loopVars, migVars,
                   adsGoroutine, evQ, devInfoQ,
                   receivedButNotReadyRemoteDevices, allRemoteDevicesReady,
                   dstAuthority, dstCompleted, devices, stage2Inputs, errs,
                   internalCtxDone, allRemoteDevicesReceived, migrateFrom,
                   schemaVars, stage4Inputs, tos,
                   AuthorityTransferCompleted, obs>>

\* The function ConcurrentMap runs for the k-th element of stage5Inputs:
\* to := protocol.NewToProtocol(size, uint32(index), pro).  The functions of
\* the elements run concurrently, each once.
NewToProtocol(k) ==
    /\ impl = "stage"
    /\ stage4Pos = Len(stage4Inputs)
    /\ k \in 1..Len(stage5Inputs)
    /\ \A t \in tos : t.pos # k
    /\ tos' = tos \cup {[pos |-> k, name |-> stage5Inputs[k],
                          index |-> ConcurrentMapIndex(k)]}
    /\ UNCHANGED <<cfgVars, pc, srcShared, guestVars, loopVars, migVars,
                   adsGoroutine, evQ, devInfoQ,
                   receivedButNotReadyRemoteDevices, allRemoteDevicesReady,
                   dstAuthority, dstCompleted, devices, stage2Inputs, errs,
                   internalCtxDone, allRemoteDevicesReceived, migrateFrom,
                   schemaVars, stage4Inputs, stage4Pos, stage5Inputs,
                   AuthorityTransferCompleted, obs>>

\* SpecStage: MigrateTo called on a resumed peer of any devices of distinct
\* names, with any device list of at most two entries.
InitStage ==
    /\ impl = "stage"
    /\ migrateToDevice = FixedConfig
    /\ pc = [d \in Devices |-> "done"]
    /\ devicesLeftToSend = 0
    /\ adsGoroutine = [d \in Devices |-> "none"]
    /\ evQ = [d \in Devices |-> <<>>]
    /\ devInfoQ = [d \in Devices |-> "none"]
    /\ receivedButNotReadyRemoteDevices = 0
    /\ devices \in UNION {[1..n -> [Name : StageNames]] : n \in 0..NumDevices}
    /\ stage2Inputs = {}
    /\ errs = {}
    /\ internalCtxDone = FALSE
    /\ allRemoteDevicesReceived = FALSE
    /\ migrateFrom = "select_received"
    /\ input = [Name |-> "memory", Base |-> BasePath, Overlay |-> <<>>,
                State |-> <<>>, Shared |-> FALSE]
    /\ ds = NoSchema
    /\ stage4Inputs \in
           {q \in UNION {[1..n -> StageNames] : n \in 0..Cardinality(StageNames)} :
               \A i, j \in 1..Len(q) : i # j => q[i] # q[j]}
    /\ stage4Pos = 0
    /\ stage5Inputs = <<>>
    /\ tos = {}
    /\ InitHandlersIdle
    /\ InitController

NextStage ==
    \/ BuildStage5
    \/ \E k \in 1..Cardinality(StageNames) : NewToProtocol(k)

SpecStage == InitStage /\ [][NextStage]_vars

(***************************************************************************)
(* MigrateTo: the NeedAt and DontNeedAt handlers of one device.  Offsets   *)
(* are byte offsets into the device (offset >= 0) and the requests have a  *)
(* positive length; the device is not empty.  With these, endOffset - 1    *)
(* does not wrap around in uint64.                                         *)
(***************************************************************************)
\* Every variable of the controller and of MigrateFrom at rest.
InitQuiet ==
    /\ migrateToDevice = FixedConfig
    /\ pc = [d \in Devices |-> "done"]
    /\ devicesLeftToSend = NumDevices
    /\ adsGoroutine = [d \in Devices |-> "none"]
    /\ evQ = [d \in Devices |-> <<>>]
    /\ devInfoQ = [d \in Devices |-> "none"]
    /\ receivedButNotReadyRemoteDevices = 0
    /\ devices = AllDevicesListed
    /\ stage2Inputs = Devices
    /\ errs = {}
    /\ internalCtxDone = FALSE
    /\ allRemoteDevicesReceived = TRUE
    /\ migrateFrom = "stage1"
    /\ input = [Name |-> "memory", Base |-> BasePath, Overlay |-> <<>>,
                State |-> <<>>, Shared |-> FALSE]
    /\ ds = NoSchema
    /\ stage4Inputs = <<"memory", "disk">>
    /\ stage4Pos = 2
    /\ stage5Inputs = <<"memory", "disk">>
    /\ tos = {[pos |-> 1, name |-> "memory", index |-> 0],
              [pos |-> 2, name |-> "disk", index |-> 1]}
    /\ InitController

\* for b := startBlock; b < endBlock; b++
RECURSIVE BlockLoop(_, _)
BlockLoop(b, endBlock) ==
    IF b < endBlock THEN {b} \cup BlockLoop(b + 1, endBlock) ELSE {}

\* Variant: the end of the request is not clamped to the size of the device.
ClampUnclamped(end, size) == end

\* if endOffset > uint64(storage.Size()) { endOffset = uint64(storage.Size()) }
Clamp(end, size) == IF end > size THEN size ELSE end

\* The blocks the NeedAt callback passes to orderer.PrioritiseBlock.
NeedAtBlocks(offset, length) ==
    LET endOffset == Clamp(offset + length, storageSize)
        startBlock == offset \div blockSize
        endBlock == ((endOffset - 1) \div blockSize) + 1
    IN  BlockLoop(startBlock, endBlock)

\* The blocks the DontNeedAt callback passes to orderer.Remove: both
\* divisions are by storage.Size().
DontNeedAtBlocks(offset, length) ==
    LET endOffset == Clamp(offset + length, storageSize)
        startBlock == offset \div storageSize
        endBlock == ((endOffset - 1) \div storageSize) + 1
    IN  BlockLoop(startBlock, endBlock)

\* The callback of to.HandleNeedAt.
HandleNeedAt(offset, length) ==
    /\ impl = "need"
    /\ prioritised' = prioritised \cup NeedAtBlocks(offset, length)
    /\ needCall' = [op |-> "NeedAt", offset |-> offset, length |-> length,
                    blocks |-> NeedAtBlocks(offset, length)]
    /\ UNCHANGED <<impl, migrateToDevice, storageSize, blockSize, removed, lockVars, closeVars, runnerVars,
                   pc, srcShared, guestVars, loopVars, migVars, adsGoroutine,
                   evQ, devInfoQ, dstVars, AuthorityTransferCompleted, obs>>

\* The callback of to.HandleDontNeedAt.
HandleDontNeedAt(offset, length) ==
    /\ impl = "need"
    /\ removed' = removed \cup DontNeedAtBlocks(offset, length)
    /\ needCall' = [op |-> "DontNeedAt", offset |-> offset, length |-> length,
                    blocks |-> DontNeedAtBlocks(offset, length)]
    /\ UNCHANGED <<impl, migrateToDevice, storageSize, blockSize, prioritised, lockVars, closeVars, runnerVars,
                   pc, srcShared, guestVars, loopVars, migVars, adsGoroutine,
                   evQ, devInfoQ, dstVars, AuthorityTransferCompleted, obs>>

\* SpecNeed: a device of any size and block size up to the bounds, and any
\* sequence of NeedAt and DontNeedAt requests.
InitNeed ==
    /\ impl = "need"
    /\ storageSize \in 1..NeedMaxSize
    /\ blockSize \in 1..NeedMaxBlockSize
    /\ prioritised = {}
    /\ removed = {}
    /\ needCall = NoCall
    /\ InitLockIdle
    /\ InitCloseIdle
    /\ InitRunnerIdle
    /\ InitQuiet

NextNeed ==
    \/ \E offset \in 0..NeedMaxSize, length \in 1..NeedMaxLength :
           HandleNeedAt(offset, length)
    \/ \E offset \in 0..NeedMaxSize, length \in 1..NeedMaxLength :
           HandleDontNeedAt(offset, length)

SpecNeed == InitNeed /\ [][NextNeed]_vars

(***************************************************************************)
(* MigrateTo: cfg.Locker_handler and cfg.Unlocker_handler of every device. *)
(* The migrator calls the lock handler at the start of GetLatestDirty and  *)
(* the unlock handler after the sample was taken (inside GetLatestDirty    *)
(* for a non-empty sample, through mig.Unlock for an empty one), so the    *)
(* two alternate in the goroutine of the device's dirty loop.  A SendEvent *)
(* that fails panics; the panic collector the handler defers takes the     *)
(* panic and the handler returns.                                          *)
(***************************************************************************)
LockStep(d, l) == lockPc' = [lockPc EXCEPT ![d] = l]

Traced(d, e) == lockTrace' = [lockTrace EXCEPT ![d] = Append(@, e)]

LockRest == <<impl, migrateToDevice, needVars, closeVars, runnerVars, pc, srcShared, guestVars,
              loopVars, migVars, adsGoroutine, evQ, devInfoQ, dstVars,
              AuthorityTransferCompleted, obs>>

\* mig.GetLatestDirty calls the lock handler: to.SendEvent(PreLock).
LockerPreLock(d) ==
    /\ impl = "lock"
    /\ lockPc[d] = "idle"
    /\ lockCycles[d] < LockCycleCap
    /\ lockCycles' = [lockCycles EXCEPT ![d] = @ + 1]
    /\ \/ Traced(d, "PreLock") /\ LockStep(d, "l_lock")
       \/ UNCHANGED lockTrace /\ LockStep(d, "sampled")
    /\ UNCHANGED <<gateLocked, LockRest>>

\* Variant: the lock handler does not lock the storage.
LockerLockSkipped(d) ==
    /\ impl = "lock"
    /\ lockPc[d] = "l_lock"
    /\ Traced(d, "Lock")
    /\ LockStep(d, "l_post")
    /\ UNCHANGED <<gateLocked, lockCycles, LockRest>>

\* input.prev.storage.Lock()
LockerLock(d) ==
    /\ impl = "lock"
    /\ lockPc[d] = "l_lock"
    /\ gateLocked' = [gateLocked EXCEPT ![d] = TRUE]
    /\ Traced(d, "Lock")
    /\ LockStep(d, "l_post")
    /\ UNCHANGED <<lockCycles, LockRest>>

\* to.SendEvent(PostLock); the handler returns and the migrator takes the
\* sample.
LockerPostLock(d) ==
    /\ impl = "lock"
    /\ lockPc[d] = "l_post"
    /\ Traced(d, "PostLock") \/ UNCHANGED lockTrace
    /\ LockStep(d, "sampled")
    /\ UNCHANGED <<gateLocked, lockCycles, LockRest>>

\* The unlock handler: to.SendEvent(PreUnlock).
UnlockerPreUnlock(d) ==
    /\ impl = "lock"
    /\ lockPc[d] = "sampled"
    /\ \/ Traced(d, "PreUnlock") /\ LockStep(d, "u_unlock")
       \/ UNCHANGED lockTrace /\ LockStep(d, "idle")
    /\ UNCHANGED <<gateLocked, lockCycles, LockRest>>

\* input.prev.storage.Unlock()
UnlockerUnlock(d) ==
    /\ impl = "lock"
    /\ lockPc[d] = "u_unlock"
    /\ gateLocked' = [gateLocked EXCEPT ![d] = FALSE]
    /\ Traced(d, "Unlock")
    /\ LockStep(d, "u_post")
    /\ UNCHANGED <<lockCycles, LockRest>>

\* to.SendEvent(PostUnlock); the handler returns.
UnlockerPostUnlock(d) ==
    /\ impl = "lock"
    /\ lockPc[d] = "u_post"
    /\ Traced(d, "PostUnlock") \/ UNCHANGED lockTrace
    /\ LockStep(d, "idle")
    /\ UNCHANGED <<gateLocked, lockCycles, LockRest>>

\* SpecLock: the dirty loops of the devices sample concurrently, each
\* through its own gate and its own to-protocol.
InitLock ==
    /\ impl = "lock"
    /\ InitHandlersIdle
    /\ InitQuiet

NextLock ==
    \/ \E d \in Devices : LockerPreLock(d)
    \/ \E d \in Devices : LockerLock(d)
    \/ \E d \in Devices : LockerPostLock(d)
    \/ \E d \in Devices : UnlockerPreUnlock(d)
    \/ \E d \in Devices : UnlockerUnlock(d)
    \/ \E d \in Devices : UnlockerPostUnlock(d)

SpecLock == InitLock /\ [][NextLock]_vars

(***************************************************************************)
(* MigrateFrom: migratedPeer.Close and the close functions the DevInfo     *)
(* callbacks register.  A deferred call runs when Close returns, the last  *)
(* deferred first; the result errs is a named result, so the deferred      *)
(* calls still join into it.                                               *)
(***************************************************************************)
CloseRest == <<impl, migrateToDevice, handlerVars, runnerVars, pc, srcShared, guestVars,
               loopVars, migVars, adsGoroutine, evQ, devInfoQ, dstVars,
               AuthorityTransferCompleted, obs>>

\* The calls of Close itself; a registered close function is named by the
\* device whose DevInfo callback registered it.
RunnerClose == <<"peer", "runner.Close">>
WaitCall == <<"peer", "Wait">>
UnlockCall == <<"peer", "Unlock">>

\* A call of fn that returned err (TRUE) or nil (FALSE).
Called(fn, err) == [fn |-> fn, err |-> err]

\* errs = errors.Join(errs, err) when err != nil.
Joined(joined, fn, err) == IF err THEN Append(joined, fn) ELSE joined

\* Variant: the deferred calls run in the order they were deferred.
DeferredOldest(stack) == 1

\* The deferred call that runs next when the function returns.
DeferredNext(stack) == Len(stack)

Without(stack, k) == [i \in 1..(Len(stack) - 1) |-> IF i < k THEN stack[i] ELSE stack[i + 1]]

\* The DevInfo callback of a remote device appends device.Shutdown and then
\* runner.Close under deviceCloseFuncsLock.
RegisterCloseFuncs(d) ==
    /\ impl = "close"
    /\ ~deviceCloseFuncsLock
    /\ \A i \in 1..Len(deviceCloseFuncs) : deviceCloseFuncs[i][1] # d
    /\ deviceCloseFuncs' = deviceCloseFuncs \o <<<<d, "Shutdown">>, <<d, "runner.Close">>>>
    /\ UNCHANGED <<deviceCloseFuncsLock, closePc, closeRange, closeIdx, deferred,
                   closeTrace, closeErrs, CloseRest>>

\* After the local devices were set up, MigrateFrom appends the deferFunc of
\* a local device under deviceCloseFuncsLock.
RegisterDeferFunc(d) ==
    /\ impl = "close"
    /\ ~deviceCloseFuncsLock
    /\ \A i \in 1..Len(deviceCloseFuncs) : deviceCloseFuncs[i][1] # d
    /\ deviceCloseFuncs' = Append(deviceCloseFuncs, <<d, "deferFunc">>)
    /\ UNCHANGED <<deviceCloseFuncsLock, closePc, closeRange, closeIdx, deferred,
                   closeTrace, closeErrs, CloseRest>>

\* if err := runner.Close(); err != nil { errs = errors.Join(errs, err) };
\* defer func() { migratedPeer.Wait() ... }()
CloseRunner ==
    /\ impl = "close"
    /\ closePc = "idle"
    /\ \E err \in BOOLEAN :
          /\ closeTrace' = Append(closeTrace, Called(RunnerClose, err))
          /\ closeErrs' = Joined(closeErrs, RunnerClose, err)
    /\ deferred' = Append(deferred, WaitCall)
    /\ closePc' = "lock"
    /\ UNCHANGED <<deviceCloseFuncs, deviceCloseFuncsLock, closeRange, closeIdx,
                   CloseRest>>

\* deviceCloseFuncsLock.Lock(); defer deviceCloseFuncsLock.Unlock(); the
\* range expression is evaluated once.
CloseLock ==
    /\ impl = "close"
    /\ closePc = "lock"
    /\ ~deviceCloseFuncsLock
    /\ deviceCloseFuncsLock' = TRUE
    /\ deferred' = Append(deferred, UnlockCall)
    /\ closeRange' = deviceCloseFuncs
    /\ closeIdx' = 0
    /\ closePc' = "range"
    /\ UNCHANGED <<deviceCloseFuncs, closeTrace, closeErrs, CloseRest>>

\* One iteration of the loop: defer func(closeFunc) {...}(closeFunc); after
\* the last one, return.
CloseDefer ==
    /\ impl = "close"
    /\ closePc = "range"
    /\ IF closeIdx < Len(closeRange)
       THEN /\ deferred' = Append(deferred, closeRange[closeIdx + 1])
            /\ closeIdx' = closeIdx + 1
            /\ UNCHANGED closePc
       ELSE /\ closePc' = "return"
            /\ UNCHANGED <<deferred, closeIdx>>
    /\ UNCHANGED <<deviceCloseFuncs, deviceCloseFuncsLock, closeRange,
                   closeTrace, closeErrs, CloseRest>>

\* Close returns: one deferred call runs; a close function or Wait that
\* fails joins its error into errs.
CloseRunDeferred ==
    /\ impl = "close"
    /\ closePc = "return"
    /\ IF deferred = <<>>
       THEN /\ closePc' = "closed"
            /\ UNCHANGED <<deferred, deviceCloseFuncsLock, closeTrace, closeErrs>>
       ELSE LET k == DeferredNext(deferred)
                fn == deferred[k]
            IN  /\ deferred' = Without(deferred, k)
                /\ UNCHANGED closePc
                /\ IF fn = UnlockCall
                   THEN /\ deviceCloseFuncsLock' = FALSE
                        /\ UNCHANGED <<closeTrace, closeErrs>>
                   ELSE /\ UNCHANGED deviceCloseFuncsLock
                        /\ \E err \in BOOLEAN :
                              /\ closeTrace' = Append(closeTrace, Called(fn, err))
                              /\ closeErrs' = Joined(closeErrs, fn, err)
    /\ UNCHANGED <<deviceCloseFuncs, closeRange, closeIdx, CloseRest>>

\* SpecClose: every device is set up remotely or locally and registers its
\* close functions, in any order, before, while or after Close runs; any
\* call may fail.
InitClose ==
    /\ impl = "close"
    /\ InitHandlersIdle
    /\ InitQuiet

NextClose ==
    \/ \E d \in Devices : RegisterCloseFuncs(d)
    \/ \E d \in Devices : RegisterDeferFunc(d)
    \/ CloseRunner
    \/ CloseLock
    \/ CloseDefer
    \/ CloseRunDeferred

SpecClose == InitClose /\ [][NextClose]_vars

(***************************************************************************)
(* StartRunner and runner.Resume.  A call of Resume adds itself to         *)
(* ongoingResumeWg for as long as it runs; a goroutine of StartRunner      *)
(* cancels firecrackerCtx, the context of the hypervisor process, once     *)
(* hypervisorCtx is done and the wait group is empty.  A panic in Resume   *)
(* is recovered and followed by the OnAfterRecover hook.                   *)
(***************************************************************************)
ResumeRest == <<impl, migrateToDevice, handlerVars, closeVars, acceptVars, pc,
                srcShared, guestVars, loopVars, migVars, adsGoroutine, evQ,
                devInfoQ, dstVars, AuthorityTransferCompleted, obs>>

At(c, l) == resumePc' = [resumePc EXCEPT ![c] = l]

\* panic(...) in Resume: the panic is recovered, OnAfterRecover runs next.
Panics(c) ==
    /\ At(c, "recover")
    /\ resumeFailedAt' = [resumeFailedAt EXCEPT ![c] = resumePc[c]]

ResumeTraced(c, calls) == resumeTrace' = [resumeTrace EXCEPT ![c] = @ \o calls]

\* runner.Resume is called: ongoingResumeWg.Add(1); defer ongoingResumeWg.Done().
StartResume(c) ==
    /\ impl = "runner"
    /\ resumePc[c] = "idle"
    /\ ongoingResumeWg' = ongoingResumeWg + 1
    /\ At(c, "start_agent")
    /\ UNCHANGED <<resumeVersion, hypervisorCtxDone, rescueCtxDone,
                   firecrackerCtxDone, waiterPc, suspendOnPanicWithError, agent,
                   acceptingAgent, resumeFailedAt, resumeTrace, ResumeRest>>

\* agent, err = ipc.StartAgentServer(...); an error panics.
ResumeStartAgentServer(c) ==
    /\ resumePc[c] = "start_agent"
    /\ \/ /\ agent' = [agent EXCEPT ![c] = TRUE]
          /\ At(c, "chown")
          /\ UNCHANGED resumeFailedAt
       \/ /\ Panics(c)
          /\ UNCHANGED agent
    /\ UNCHANGED <<resumeVersion, hypervisorCtxDone, rescueCtxDone,
                   firecrackerCtxDone, ongoingResumeWg, waiterPc,
                   suspendOnPanicWithError, acceptingAgent, resumeTrace,
                   ResumeRest>>

\* os.Chown(agent.VSockPath, ...); an error panics.
ResumeChown(c) ==
    /\ resumePc[c] = "chown"
    /\ \/ /\ At(c, "resume_snapshot")
          /\ UNCHANGED resumeFailedAt
       \/ Panics(c)
    /\ UNCHANGED <<resumeVersion, hypervisorCtxDone, rescueCtxDone,
                   firecrackerCtxDone, ongoingResumeWg, waiterPc,
                   suspendOnPanicWithError, agent, acceptingAgent, resumeTrace,
                   ResumeRest>>

\* firecracker.ResumeSnapshot(...); an error panics, otherwise
\* suspendOnPanicWithError = true.
ResumeSnapshot(c) ==
    /\ resumePc[c] = "resume_snapshot"
    /\ \/ /\ suspendOnPanicWithError' = [suspendOnPanicWithError EXCEPT ![c] = TRUE]
          /\ At(c, "accept")
          /\ UNCHANGED resumeFailedAt
       \/ /\ Panics(c)
          /\ UNCHANGED suspendOnPanicWithError
    /\ UNCHANGED <<resumeVersion, hypervisorCtxDone, rescueCtxDone,
                   firecrackerCtxDone, ongoingResumeWg, waiterPc, agent,
                   acceptingAgent, resumeTrace, ResumeRest>>

\* acceptingAgent, err = agent.Accept(...).  Accept returns its
\* &AcceptingAgentServer{} with its error: with no field set when it failed
\* before a client connected ("empty"), with Close set afterwards
\* ("connected").  An error panics.
ResumeAccept(c) ==
    /\ resumePc[c] = "accept"
    /\ \/ /\ acceptingAgent' = [acceptingAgent EXCEPT ![c] = "connected"]
          /\ At(c, "after_resume")
          /\ UNCHANGED resumeFailedAt
       \/ /\ \E a \in {"empty", "connected"} :
                 acceptingAgent' = [acceptingAgent EXCEPT ![c] = a]
          /\ Panics(c)
    /\ UNCHANGED <<resumeVersion, hypervisorCtxDone, rescueCtxDone,
                   firecrackerCtxDone, ongoingResumeWg, waiterPc,
                   suspendOnPanicWithError, agent, resumeTrace, ResumeRest>>

\* acceptingAgent.Remote.AfterResume(afterResumeCtx); an error panics, otherwise
\* Resume returns.
ResumeAfterResume(c) ==
    /\ resumePc[c] = "after_resume"
    /\ \/ /\ At(c, "returning")
          /\ UNCHANGED resumeFailedAt
       \/ Panics(c)
    /\ UNCHANGED <<resumeVersion, hypervisorCtxDone, rescueCtxDone,
                   firecrackerCtxDone, ongoingResumeWg, waiterPc,
                   suspendOnPanicWithError, agent, acceptingAgent, resumeTrace,
                   ResumeRest>>

\* A goroutine of the call panics (server.Wait() or acceptingAgent.Wait()
\* returned an error) while the body is at any of its steps.
ResumeGoroutinePanics(c) ==
    /\ resumePc[c] \in {"start_agent", "chown", "resume_snapshot", "accept",
                        "after_resume"}
    /\ Panics(c)
    /\ UNCHANGED <<resumeVersion, hypervisorCtxDone, rescueCtxDone,
                   firecrackerCtxDone, ongoingResumeWg, waiterPc,
                   suspendOnPanicWithError, agent, acceptingAgent, resumeTrace,
                   ResumeRest>>

\* The test before acceptingAgent.Close() in OnAfterRecover:
\* acceptingAgent != nil in resume.go, acceptingAgent != nil &&
\* acceptingAgent.Close != nil in part_006.
CallsAcceptingAgentClose(version, a) ==
    /\ a # "nil"
    /\ version = "part_006" => a = "connected"

\* OnAfterRecover: nothing unless suspendOnPanicWithError; otherwise
\* acceptingAgent.Close() and agent.Close() under their tests, and then the
\* snapshot.  Calling the nil func Close of an empty accepting server is a
\* runtime panic inside the hook: the rest of the hook does not run.
OnAfterRecover(c) ==
    /\ resumePc[c] = "recover"
    /\ IF ~suspendOnPanicWithError[c]
       THEN /\ At(c, "returning")
            /\ UNCHANGED resumeTrace
       ELSE IF CallsAcceptingAgentClose(resumeVersion, acceptingAgent[c])
                   /\ acceptingAgent[c] = "empty"
            THEN /\ ResumeTraced(c, <<"nil func call">>)
                 /\ At(c, "returning")
            ELSE /\ ResumeTraced(c,
                        (IF CallsAcceptingAgentClose(resumeVersion, acceptingAgent[c])
                         THEN <<"acceptingAgent.Close">> ELSE <<>>)
                        \o (IF agent[c] THEN <<"agent.Close">> ELSE <<>>))
                 /\ At(c, "rescue")
    /\ UNCHANGED <<resumeVersion, hypervisorCtxDone, rescueCtxDone,
                   firecrackerCtxDone, ongoingResumeWg, waiterPc,
                   suspendOnPanicWithError, agent, acceptingAgent,
                   resumeFailedAt, ResumeRest>>

\* createSnapshot(suspendCtx) in OnAfterRecover; its error is joined into errs.
RescueSnapshot(c) ==
    /\ resumePc[c] = "rescue"
    /\ ResumeTraced(c, <<"createSnapshot">>)
    /\ At(c, "returning")
    /\ UNCHANGED <<resumeVersion, hypervisorCtxDone, rescueCtxDone,
                   firecrackerCtxDone, ongoingResumeWg, waiterPc,
                   suspendOnPanicWithError, agent, acceptingAgent,
                   resumeFailedAt, ResumeRest>>

\* Resume returns: the deferred ongoingResumeWg.Done().
ResumeReturn(c) ==
    /\ resumePc[c] = "returning"
    /\ ongoingResumeWg' = ongoingResumeWg - 1
    /\ At(c, "returned")
    /\ UNCHANGED <<resumeVersion, hypervisorCtxDone, rescueCtxDone,
                   firecrackerCtxDone, waiterPc, suspendOnPanicWithError, agent,
                   acceptingAgent, resumeFailedAt, resumeTrace, ResumeRest>>

\* The caller of StartRunner cancels hypervisorCtx.
CancelHypervisorCtx ==
    /\ impl = "runner"
    /\ ~hypervisorCtxDone
    /\ hypervisorCtxDone' = TRUE
    /\ UNCHANGED <<resumeVersion, rescueCtxDone, firecrackerCtxDone,
                   ongoingResumeWg, waiterPc, resumePc, suspendOnPanicWithError,
                   agent, acceptingAgent, resumeFailedAt, resumeTrace,
                   ResumeRest>>

\* The caller of StartRunner cancels rescueCtx; firecrackerCtx is
\* context.WithCancel(rescueCtx) and is done with it.
CancelRescueCtx ==
    /\ impl = "runner"
    /\ ~rescueCtxDone
    /\ rescueCtxDone' = TRUE
    /\ firecrackerCtxDone' = TRUE
    /\ UNCHANGED <<resumeVersion, hypervisorCtxDone, ongoingResumeWg, waiterPc,
                   resumePc, suspendOnPanicWithError, agent, acceptingAgent,
                   resumeFailedAt, resumeTrace, ResumeRest>>

\* The goroutine of StartRunner: <-hypervisorCtx.Done()
WaiterHypervisorCtxDone ==
    /\ impl = "runner"
    /\ waiterPc = "hypervisorCtx"
    /\ hypervisorCtxDone
    /\ waiterPc' = "ongoingResumeWg"
    /\ UNCHANGED <<resumeVersion, hypervisorCtxDone, rescueCtxDone,
                   firecrackerCtxDone, ongoingResumeWg, resumePc,
                   suspendOnPanicWithError, agent, acceptingAgent,
                   resumeFailedAt, resumeTrace, ResumeRest>>

\* ongoingResumeWg.Wait() returns when the counter is zero.
WaiterWgWait ==
    /\ waiterPc = "ongoingResumeWg"
    /\ ongoingResumeWg = 0
    /\ waiterPc' = "cancel"
    /\ UNCHANGED <<resumeVersion, hypervisorCtxDone, rescueCtxDone,
                   firecrackerCtxDone, ongoingResumeWg, resumePc,
                   suspendOnPanicWithError, agent, acceptingAgent,
                   resumeFailedAt, resumeTrace, ResumeRest>>

\* cancelFirecrackerCtx()
WaiterCancel ==
    /\ waiterPc = "cancel"
    /\ firecrackerCtxDone' = TRUE
    /\ waiterPc' = "end"
    /\ UNCHANGED <<resumeVersion, hypervisorCtxDone, rescueCtxDone,
                   ongoingResumeWg, resumePc, suspendOnPanicWithError, agent,
                   acceptingAgent, resumeFailedAt, resumeTrace, ResumeRest>>

\* SpecRunner: a started runner of either version; Resume is called up to
\* MaxResumeCalls times, at any time, and the contexts are cancelled at any
\* time.
InitRunner ==
    /\ impl = "runner"
    /\ InitNeedIdle
    /\ InitLockIdle
    /\ InitCloseIdle
    /\ InitAcceptIdle
    /\ InitQuiet
    /\ resumeVersion \in {"resume.go", "part_006"}
    /\ hypervisorCtxDone = FALSE
    /\ rescueCtxDone = FALSE
    /\ firecrackerCtxDone = FALSE
    /\ ongoingResumeWg = 0
    /\ waiterPc = "hypervisorCtx"
    /\ resumePc = [c \in ResumeCalls |-> "idle"]
    /\ suspendOnPanicWithError = [c \in ResumeCalls |-> FALSE]
    /\ agent = [c \in ResumeCalls |-> FALSE]
    /\ acceptingAgent = [c \in ResumeCalls |-> "nil"]
    /\ resumeFailedAt = [c \in ResumeCalls |-> "none"]
    /\ resumeTrace = [c \in ResumeCalls |-> <<>>]

NextRunner ==
    \/ \E c \in ResumeCalls : StartResume(c)
    \/ \E c \in ResumeCalls : ResumeStartAgentServer(c)
    \/ \E c \in ResumeCalls : ResumeChown(c)
    \/ \E c \in ResumeCalls : ResumeSnapshot(c)
    \/ \E c \in ResumeCalls : ResumeAccept(c)
    \/ \E c \in ResumeCalls : ResumeAfterResume(c)
    \/ \E c \in ResumeCalls : ResumeGoroutinePanics(c)
    \/ \E c \in ResumeCalls : OnAfterRecover(c)
    \/ \E c \in ResumeCalls : RescueSnapshot(c)
    \/ \E c \in ResumeCalls : ResumeReturn(c)
    \/ CancelHypervisorCtx
    \/ CancelRescueCtx
    \/ WaiterHypervisorCtxDone
    \/ WaiterWgWait
    \/ WaiterCancel

SpecRunner == InitRunner /\ [][NextRunner]_vars

(***************************************************************************)
(* AgentServer.Accept.  One call on a started agent server; the server is  *)
(* closed and the contexts are cancelled at any time.  A panic of Accept   *)
(* or of one of its goroutines is recovered and joined into errs; the      *)
(* deferred cancelReadyCtx() and cancel() run when Accept returns.         *)
(***************************************************************************)
AcceptRest == <<impl, migrateToDevice, handlerVars, closeVars, resumeVars, pc,
                srcShared, guestVars, loopVars, migVars, adsGoroutine, evQ,
                devInfoQ, dstVars, AuthorityTransferCompleted, obs>>

\* Accept returns e, or the error a goroutine joined into errs before.
AcceptReturns(e) ==
    /\ acceptPc' = "returned"
    /\ acceptErrs' = IF acceptErrs = "joined" THEN "error" ELSE e
    /\ readyCtxDone' = TRUE
    /\ acceptCtxDone' = TRUE

\* agentServer.Accept(acceptCtx, remoteCtx) is called:
\* acceptingAgentServer = &AcceptingAgentServer{}, and the first goroutine
\* starts.
AcceptCall ==
    /\ impl = "accept"
    /\ acceptPc = "idle"
    /\ acceptPc' = "lis.Accept"
    /\ watcherPc' = "select"
    /\ acceptingAgentServer' = NoFields
    /\ UNCHANGED <<closed, lisClosed, acceptCtxDone, readyCtxDone,
                   remoteCtxDone, connClosed, closerPc, acceptErrs, AcceptRest>>

\* agentServer.Close() called by the owner of the server: closed = true,
\* lis.Close().
AgentServerClose ==
    /\ impl = "accept"
    /\ ~lisClosed
    /\ closed' = TRUE
    /\ lisClosed' = TRUE
    /\ UNCHANGED <<acceptPc, acceptCtxDone, readyCtxDone, remoteCtxDone,
                   connClosed, watcherPc, closerPc, acceptingAgentServer,
                   acceptErrs, AcceptRest>>

\* acceptCtx is cancelled or its deadline passes.
CancelAcceptCtx ==
    /\ impl = "accept"
    /\ acceptPc # "returned"
    /\ ~acceptCtxDone
    /\ acceptCtxDone' = TRUE
    /\ UNCHANGED <<acceptPc, closed, lisClosed, readyCtxDone, remoteCtxDone,
                   connClosed, watcherPc, closerPc, acceptingAgentServer,
                   acceptErrs, AcceptRest>>

\* remoteCtx is cancelled.
CancelRemoteCtx ==
    /\ impl = "accept"
    /\ ~remoteCtxDone
    /\ remoteCtxDone' = TRUE
    /\ UNCHANGED <<acceptPc, closed, lisClosed, acceptCtxDone, readyCtxDone,
                   connClosed, watcherPc, closerPc, acceptingAgentServer,
                   acceptErrs, AcceptRest>>

\* The first goroutine: select { case <-internalCtx.Done():
\* agentServer.Close(); case <-readyCtx.Done(): }
AcceptWatcher ==
    /\ watcherPc = "select"
    /\ \/ /\ acceptCtxDone
          /\ closed' = TRUE
          /\ lisClosed' = TRUE
       \/ /\ readyCtxDone
          /\ UNCHANGED <<closed, lisClosed>>
    /\ watcherPc' = "done"
    /\ UNCHANGED <<acceptPc, acceptCtxDone, readyCtxDone, remoteCtxDone,
                   connClosed, closerPc, acceptingAgentServer, acceptErrs,
                   AcceptRest>>

\* if closed && errors.Is(err, net.ErrClosed): the panic is raised only if
\* internalCtx.Err() != nil, otherwise Accept returns.
ClosedIsError(ctxErr) == ctxErr

\* conn, err := lis.Accept().  A connection: acceptingAgentServer.Close is
\* set, the closing goroutine starts, the registry is made,
\* acceptingAgentServer.Wait is set and its goroutine starts.  An error of a
\* listener that agentServer.Close() closed: see ClosedIsError.  Any other
\* error panics.
LisAccept ==
    /\ acceptPc = "lis.Accept"
    /\ \/ /\ ~lisClosed
          /\ acceptPc' = "select"
          /\ acceptingAgentServer' =
                 [acceptingAgentServer EXCEPT !.Close = TRUE, !.Wait = TRUE]
          /\ closerPc' = "select"
          /\ UNCHANGED <<acceptErrs, readyCtxDone, acceptCtxDone>>
       \/ /\ lisClosed
          /\ AcceptReturns(IF ClosedIsError(acceptCtxDone) THEN "error" ELSE "nil")
          /\ UNCHANGED <<acceptingAgentServer, closerPc>>
       \/ /\ ~lisClosed
          /\ AcceptReturns("error")
          /\ UNCHANGED <<acceptingAgentServer, closerPc>>
    /\ UNCHANGED <<closed, lisClosed, remoteCtxDone, connClosed, watcherPc,
                   AcceptRest>>

\* The closing goroutine: select { case <-internalCtx.Done(): close both;
\* case <-readyCtx.Done(): <-remoteCtx.Done(); close both }, where closing
\* both is acceptingAgentServer.Close() (closed = true, conn.Close()) and
\* agentServer.Close().
AcceptCloser ==
    /\ \/ /\ closerPc = "select"
          /\ acceptCtxDone
          /\ closerPc' = "done"
          /\ closed' = TRUE /\ connClosed' = TRUE /\ lisClosed' = TRUE
       \/ /\ closerPc = "select"
          /\ readyCtxDone
          /\ closerPc' = "remoteCtx"
          /\ UNCHANGED <<closed, connClosed, lisClosed>>
       \/ /\ closerPc = "remoteCtx"
          /\ remoteCtxDone
          /\ closerPc' = "done"
          /\ closed' = TRUE /\ connClosed' = TRUE /\ lisClosed' = TRUE
    /\ UNCHANGED <<acceptPc, acceptCtxDone, readyCtxDone, remoteCtxDone,
                   watcherPc, acceptingAgentServer, acceptErrs, AcceptRest>>

\* The client connects to the registry: OnClientConnect calls
\* cancelReadyCtx().
ClientConnects ==
    /\ acceptPc = "select"
    /\ ~connClosed
    /\ ~readyCtxDone
    /\ readyCtxDone' = TRUE
    /\ UNCHANGED <<acceptPc, closed, lisClosed, acceptCtxDone, remoteCtxDone,
                   connClosed, watcherPc, closerPc, acceptingAgentServer,
                   acceptErrs, AcceptRest>>

\* The goroutine that runs acceptingAgentServer.Wait() panics with the error
\* of Wait: the error is joined into errs and internalCtx is cancelled.
AcceptWaitPanics ==
    /\ acceptPc = "select"
    /\ acceptErrs = "none"
    /\ acceptErrs' = "joined"
    /\ acceptCtxDone' = TRUE
    /\ UNCHANGED <<acceptPc, closed, lisClosed, readyCtxDone, remoteCtxDone,
                   connClosed, watcherPc, closerPc, acceptingAgentServer,
                   AcceptRest>>

\* select { case <-internalCtx.Done(): panic(internalCtx.Err());
\* case <-readyCtx.Done(): }, then registry.ForRemotes: a remote is stored in
\* acceptingAgentServer.Remote, none found panics with ErrNoRemoteFound.
AcceptSelect ==
    /\ acceptPc = "select"
    /\ \/ /\ acceptCtxDone
          /\ AcceptReturns("error")
          /\ UNCHANGED acceptingAgentServer
       \/ /\ readyCtxDone
          /\ \/ /\ acceptingAgentServer' = [acceptingAgentServer EXCEPT !.Remote = TRUE]
                /\ AcceptReturns("nil")
             \/ /\ AcceptReturns("error")
                /\ UNCHANGED acceptingAgentServer
    /\ UNCHANGED <<closed, lisClosed, remoteCtxDone, connClosed, watcherPc,
                   closerPc, AcceptRest>>

InitAccept ==
    /\ impl = "accept"
    /\ InitNeedIdle
    /\ InitLockIdle
    /\ InitCloseIdle
    /\ InitRunnerIdle
    /\ InitQuiet

NextAccept ==
    \/ AcceptCall
    \/ AgentServerClose
    \/ CancelAcceptCtx
    \/ CancelRemoteCtx
    \/ AcceptWatcher
    \/ LisAccept
    \/ AcceptCloser
    \/ ClientConnects
    \/ AcceptWaitPanics
    \/ AcceptSelect

SpecAccept == InitAccept /\ [][NextAccept]_vars

\* The dirty-sync controller: precopy, dirty loop, suspend sequence, handoff,
\* and the destination's event handler.
Next ==
    \/ \E d \in Devices : GuestWrite(d)
    \/ \E d \in Devices : Precopy(d)
    \/ \E d \in Devices : LoopMsync(d)
    \/ \E d \in Devices : Sample(d)
    \/ \E d \in Devices : CheckSuspended(d)
    \/ \E d \in Devices : MigrateDirtyGoroutine(d)
    \/ \E d \in Devices : ThrottleCheck(d)
    \/ \E d \in Devices : CycleThrottleElapsed(d)
    \/ \E d \in Devices : ThrottleWait(d)
    \/ \E d \in Devices : Count(d)
    \/ \E d \in Devices : SuspCheck(d)
    \/ \E d \in Devices : SuspendAgent(d)
    \/ \E d \in Devices : SuspendMsync(d)
    \/ \E d \in Devices : SuspendAfterHook(d)
    \/ \E d \in Devices : SuspendSetFlag(d)
    \/ \E d \in Devices : SuspendClose(d)
    \/ \E d \in Devices : SendTransferAuthority(d)
    \/ \E d \in Devices : FinalWait(d)
    \/ \E d \in Devices : SendCompleted(d)
    \/ \E d \in Devices : HandleEvent(d)
    \/ \E d \in Devices : PreGetDirty(d)
    \/ \E d \in Devices : DMGetDirty(d)
    \/ \E d \in Devices : PostGetDirty(d)
    \/ \E d \in Devices : DMSleep(d)
    \/ \E d \in Devices : DMCount(d)
    \/ \E d \in Devices : DMCheckReady(d)
    \/ \E d \in Devices : DMSuspendAndMsync(d)
    \/ \E d \in Devices : DMAuthorityTransfer(d)
    \/ Wait

Spec == Init /\ [][Next]_vars

\* One step of what runs for device d: the function utils.ConcurrentMap runs
\* for it in its own goroutine (or the dirty loop of the device group calling
\* the hooks of the DirtyManager), its MigrateDirty goroutines, its timer.
DeviceStep(d) ==
    \/ MigrateDirtyGoroutine(d)
    \/ CycleThrottleElapsed(d)
    \/ Precopy(d)
    \/ LoopMsync(d)
    \/ Sample(d)
    \/ CheckSuspended(d)
    \/ ThrottleCheck(d)
    \/ ThrottleWait(d)
    \/ Count(d)
    \/ SuspCheck(d)
    \/ SuspendAgent(d)
    \/ SuspendMsync(d)
    \/ SuspendAfterHook(d)
    \/ SuspendSetFlag(d)
    \/ SuspendClose(d)
    \/ SendTransferAuthority(d)
    \/ FinalWait(d)
    \/ SendCompleted(d)
    \/ PreGetDirty(d)
    \/ DMGetDirty(d)
    \/ PostGetDirty(d)
    \/ DMSleep(d)
    \/ DMCount(d)
    \/ DMCheckReady(d)
    \/ DMSuspendAndMsync(d)
    \/ DMAuthorityTransfer(d)

\* SpecLive: the behaviours of Spec in which the Go scheduler does not leave a
\* device for ever without a step while one of its goroutines can run or its
\* timer can fire.
Fairness == \A d \in Devices : WF_vars(DeviceStep(d))

SpecLive == Init /\ [][Next]_vars /\ Fairness

(***************************************************************************)
(* MigratablePeer.MigrateTo of pkg/roles/peer.go: the dirty loop keeps the  *)
(* samples taken with the VM suspended and migrates them after the         *)
(* authority transfer.                                                     *)
(***************************************************************************)
\* SpecRoles: every device was announced and its precopy (mig.Migrate) is done;
\* each device function is about to enter its dirty loop.
InitRoles ==
    /\ impl = "roles"
    /\ migrateToDevice = FixedConfig
    /\ pc = [d \in Devices |-> "r_msync"]
    /\ devicesLeftToSend = NumDevices
    /\ adsGoroutine = [d \in Devices |-> IF d = LastAnnounced THEN "done" ELSE "none"]
    /\ evQ = [d \in Devices |-> <<>>]
    /\ devInfoQ = [d \in Devices |-> "handled"]
    /\ receivedButNotReadyRemoteDevices = NumDevices
    /\ InitAdmitted
    /\ InitController

\* resumedRunner.Msync(ctx) at the top of every iteration of every device.
RolesMsync(d) ==
    /\ pc[d] = "r_msync"
    /\ \/ /\ MsyncFlush
          /\ Stay(d, "r_sample")
       \/ /\ Leave(d, "failed")
          /\ UNCHANGED <<dirty, memPending>>
    /\ UNCHANGED <<cfgVars, srcShared, vmRunning, migVars, adsGoroutine,
                   evQ, devInfoQ, dstVars, AuthorityTransferCompleted, obs>>

\* blocks := mig.GetLatestDirty(); a nil sample is followed by mig.Unlock() and
\* the test of suspendedVM, a non-nil one by to.DirtyList(blocks).
RolesSample(d) ==
    /\ pc[d] = "r_sample"
    /\ dirty' = [dirty EXCEPT ![d] = 0]
    /\ IF dirty[d] = 0
       THEN /\ blocks' = [blocks EXCEPT ![d] = 0]
            /\ Goto(d, "r_check")
            /\ UNCHANGED <<cyclesBelowDirtyBlockTreshold, totalCycles, ready>>
       ELSE \/ /\ blocks' = [blocks EXCEPT ![d] = dirty[d]]
               /\ Goto(d, "r_count")
               /\ UNCHANGED <<cyclesBelowDirtyBlockTreshold, totalCycles, ready>>
            \/ Leave(d, "failed")
    /\ UNCHANGED <<cfgVars, srcShared, vmRunning, memPending, migVars,
                   adsGoroutine, evQ, devInfoQ, dstVars,
                   AuthorityTransferCompleted, obs>>

\* if suspendedVM { break }; otherwise the nil sample is announced with
\* to.DirtyList(nil) and the iteration goes on.
RolesCheckSuspended(d) ==
    /\ pc[d] = "r_check"
    /\ IF MayLeaveLoop(suspendedVM)
       THEN Leave(d, "r_send_ta")
       ELSE \/ Stay(d, "r_count")
            \/ Leave(d, "failed")
    /\ UNCHANGED <<cfgVars, srcShared, guestVars, migVars, adsGoroutine,
                   evQ, devInfoQ, dstVars, AuthorityTransferCompleted, obs>>

\* totalCycles++ and the convergence policy.
RolesCount(d) ==
    /\ pc[d] = "r_count"
    /\ totalCycles[d] < RolesCycleCap
    /\ ApplyPolicy(d, blocks[d])
    /\ Goto(d, "r_susp_check")
    /\ UNCHANGED <<cfgVars, devicesLeftToSend, suspendedVM, suspendedVMCh,
                   onceState, onceErr, guestVars, blocks, migVars, adsGoroutine,
                   evQ, devInfoQ, dstVars, AuthorityTransferCompleted, obs>>

\* if devicesLeftToTransferAuthorityFor.Load() >= N { suspendVM() }: the
\* sync.OnceValue runs the function for its first caller (OnBeforeSuspend hook
\* first), blocks the others until it returned, and then hands out its result.
RolesSuspCheck(d) ==
    /\ pc[d] = "r_susp_check"
    /\ IF AllReady(devicesLeftToTransferAuthorityFor, NumDevices)
       THEN \/ /\ OnceMayRun(onceState)
               /\ onceState' = "running"
               /\ Bump("OnBeforeSuspend")
               /\ Stay(d, "r_agent")
               /\ UNCHANGED onceErr
            \/ /\ ~OnceMayRun(onceState)
               /\ onceState = "done"
               /\ IF onceErr THEN Leave(d, "failed") ELSE Stay(d, "r_dispatch")
               /\ UNCHANGED <<onceState, onceErr, obs>>
       ELSE /\ Stay(d, "r_dispatch")
            /\ UNCHANGED <<onceState, onceErr, obs>>
    /\ UNCHANGED <<cfgVars, devicesLeftToSend, devicesLeftToTransferAuthorityFor,
                   suspendedVM, suspendedVMCh, guestVars, migVars, adsGoroutine,
                   evQ, devInfoQ, dstVars, AuthorityTransferCompleted>>

\* resumedPeer.SuspendAndCloseAgentServer inside suspendVM.
RolesSuspendAgent(d) ==
    /\ pc[d] = "r_agent"
    /\ \/ /\ vmRunning' = FALSE
          /\ Bump("SuspendAndCloseAgentServer")
          /\ Stay(d, "r_setflag")
          /\ UNCHANGED <<onceState, onceErr>>
       \/ /\ vmRunning' \in {vmRunning, FALSE}
          /\ onceState' = "done"
          /\ onceErr' = TRUE
          /\ Leave(d, "failed")
          /\ UNCHANGED obs
    /\ UNCHANGED <<cfgVars, devicesLeftToSend, devicesLeftToTransferAuthorityFor,
                   suspendedVM, suspendedVMCh, memPending, dirty, migVars,
                   adsGoroutine, evQ, devInfoQ, dstVars,
                   AuthorityTransferCompleted>>

\* The OnAfterSuspend hook, suspendedVM = true under the lock, return nil.
RolesSetSuspended(d) ==
    /\ pc[d] = "r_setflag"
    /\ suspendedVM' = TRUE
    /\ onceState' = "done"
    /\ obs' = [obs EXCEPT !.OnAfterSuspend = @ + 1, !.SetSuspended = @ + 1]
    /\ Stay(d, "r_dispatch")
    /\ UNCHANGED <<cfgVars, devicesLeftToSend, devicesLeftToTransferAuthorityFor,
                   suspendedVMCh, onceErr, guestVars, migVars, adsGoroutine,
                   evQ, devInfoQ, dstVars, AuthorityTransferCompleted>>

\* The test that keeps a sample for after the authority transfer.
KeepForFinal(susp) == susp

\* Under the lock: if suspendedVM, finalDirtyBlocks = append(finalDirtyBlocks,
\* blocks...), else mig.MigrateDirty(blocks), which hands the blocks to the
\* migrator.
RolesDispatch(d) ==
    /\ pc[d] = "r_dispatch"
    /\ IF KeepForFinal(suspendedVM)
       THEN /\ finalDirtyBlocks' = [finalDirtyBlocks EXCEPT ![d] = @ + blocks[d]]
            /\ Stay(d, "r_msync")
            /\ UNCHANGED moving
       ELSE \/ /\ moving[d] + blocks[d] <= MaxMoving
               /\ moving' = [moving EXCEPT ![d] = @ + blocks[d]]
               /\ Stay(d, "r_msync")
               /\ UNCHANGED finalDirtyBlocks
            \/ /\ blocks[d] > 0
               /\ Leave(d, "failed")
               /\ UNCHANGED <<moving, finalDirtyBlocks>>
    /\ UNCHANGED <<cfgVars, srcShared, guestVars, ongoingMigrationsWg, samples,
                   adsGoroutine, evQ, devInfoQ, dstVars,
                   AuthorityTransferCompleted, obs>>

\* The migrator writes one of the blocks handed to it to the destination
\* (WriteAt).
WriteAtLands(d) ==
    /\ impl = "roles"
    /\ moving[d] > 0
    /\ moving' = [moving EXCEPT ![d] = @ - 1]
    /\ UNCHANGED <<cfgVars, pc, srcShared, guestVars, loopVars,
                   ongoingMigrationsWg, finalDirtyBlocks, samples, adsGoroutine,
                   evQ, devInfoQ, dstVars, AuthorityTransferCompleted, obs>>

\* Variant: the device goes on to its final dirty blocks without sending the
\* event.
RolesSendTransferAuthoritySkipped(d) ==
    /\ pc[d] = "r_send_ta"
    /\ Goto(d, "r_migrate_final")
    /\ UNCHANGED <<cfgVars, srcShared, guestVars, loopVars, migVars, adsGoroutine,
                   evQ, devInfoQ, dstVars, AuthorityTransferCompleted, obs>>

\* After the loop: to.SendEvent(Custom(TransferAuthority)); an error panics.
RolesSendTransferAuthority(d) ==
    /\ pc[d] = "r_send_ta"
    /\ \/ /\ Send(d, "TransferAuthority")
          /\ BumpDev("TransferAuthority", d)
          /\ Goto(d, "r_migrate_final")
       \/ /\ Goto(d, "failed")
          /\ UNCHANGED <<evQ, obs>>
    /\ UNCHANGED <<cfgVars, srcShared, guestVars, loopVars, migVars, adsGoroutine,
                   devInfoQ, dstVars, AuthorityTransferCompleted>>

\* mig.MigrateDirty(finalDirtyBlocks) after the event was sent.
RolesMigrateFinal(d) ==
    /\ pc[d] = "r_migrate_final"
    /\ \/ /\ moving' = [moving EXCEPT ![d] = @ + finalDirtyBlocks[d]]
          /\ Goto(d, "r_wait")
       \/ /\ finalDirtyBlocks[d] > 0
          /\ Goto(d, "failed")
          /\ UNCHANGED moving
    /\ UNCHANGED <<cfgVars, srcShared, guestVars, loopVars, ongoingMigrationsWg,
                   finalDirtyBlocks, samples, adsGoroutine, evQ, devInfoQ,
                   dstVars, AuthorityTransferCompleted, obs>>

\* mig.WaitForCompletion() returns once every block handed over was written.
RolesFinalWait(d) ==
    /\ pc[d] = "r_wait"
    /\ moving[d] = 0
    /\ \/ Goto(d, "r_send_completed")
       \/ Goto(d, "failed")
    /\ UNCHANGED <<cfgVars, srcShared, guestVars, loopVars, migVars,
                   adsGoroutine, evQ, devInfoQ, dstVars,
                   AuthorityTransferCompleted, obs>>

\* to.SendEvent(Completed), then the OnDeviceMigrationCompleted hook.
RolesSendCompleted(d) ==
    /\ pc[d] = "r_send_completed"
    /\ \/ /\ Send(d, "Completed")
          /\ BumpDev("Completed", d)
          /\ Goto(d, "done")
       \/ /\ Goto(d, "failed")
          /\ UNCHANGED <<evQ, obs>>
    /\ UNCHANGED <<cfgVars, srcShared, guestVars, loopVars, migVars, adsGoroutine,
                   devInfoQ, dstVars, AuthorityTransferCompleted>>

NextRoles ==
    \E d \in Devices :
        \/ GuestWrite(d)
        \/ RolesMsync(d)
        \/ RolesSample(d)
        \/ RolesCheckSuspended(d)
        \/ RolesCount(d)
        \/ RolesSuspCheck(d)
        \/ RolesSuspendAgent(d)
        \/ RolesSetSuspended(d)
        \/ RolesDispatch(d)
        \/ WriteAtLands(d)
        \/ RolesSendTransferAuthority(d)
        \/ RolesMigrateFinal(d)
        \/ RolesFinalWait(d)
        \/ RolesSendCompleted(d)

SpecRoles == InitRoles /\ [][NextRoles]_vars

(***************************************************************************)
(* Properties.                                                             *)
(***************************************************************************)
SuspendSteps ==
    {"OnBeforeSuspend", "SuspendAndCloseAgentServer", "FinalMsync",
     "OnAfterSuspend", "SetSuspended"}

\* The device left its dirty loop normally (break, or PostGetDirty said stop).
LeftLoop(d) == pc[d] \in {"send_ta", "final_wait", "send_completed", "done"}

\* C1: every step of the suspend sequence runs at most once in a migration and,
\* as soon as the sequence has returned nil to a caller, exactly once, however
\* many device goroutines call it; DirtyManager calls SuspendAndMsync and
\* AuthorityTransfer at most once.
C1_SuspendOnce ==
    /\ \A f \in SuspendSteps : obs[f] <= 1
    /\ (onceState = "done" /\ ~onceErr) => \A f \in SuspendSteps : obs[f] = 1
    /\ obs.SuspendAndMsync <= 1
    /\ obs.AuthorityTransfer <= 1

\* C1 witness: the sequence ran and returned, and another device goroutine that
\* saw all devices ready is calling it again.
C1_Witness ==
    /\ impl = "peer"
    /\ onceState = "done" /\ ~onceErr
    /\ obs.SetSuspended = 1
    /\ \E d \in Devices :
         /\ pc[d] = "susp_check"
         /\ devicesLeftToTransferAuthorityFor >= NumDevices

\* C2: a device sends TransferAuthority (DirtyManager: calls AuthorityTransfer)
\* only when every step of the suspend sequence has run and suspendedVM is set.
C2_AuthorityAfterSuspend ==
    /\ \A d \in Devices :
         (pc[d] = "send_ta" \/ obs.TransferAuthority[d] > 0) =>
             (suspendedVM /\ \A f \in SuspendSteps : obs[f] = 1)
    /\ (obs.AuthorityTransfer > 0 \/ \E d \in Devices : pc[d] = "dm_transfer") =>
             (suspendedVM /\ \A f \in SuspendSteps : obs[f] = 1)

\* C2 witness: both devices have sent TransferAuthority.
C2_Witness == \A d \in Devices : obs.TransferAuthority[d] = 1

\* C3: the suspend sequence is started only when every served device is marked
\* ready and the ready count equals the number of devices.
C3_SuspendOnlyWhenAllReady ==
    (onceState # "idle" \/ obs.OnBeforeSuspend > 0 \/ obs.SuspendAndMsync > 0) =>
        /\ \A d \in Devices : ready[d]
        /\ devicesLeftToTransferAuthorityFor = NumDevices

\* C3 witness: all devices are ready and the sequence is running.
C3_Witness ==
    /\ onceState = "running"
    /\ obs.OnBeforeSuspend = 1
    /\ \A d \in Devices : ready[d]

C6_NoUnsentDirt ==
    \A d \in Devices :
        (impl = "peer" /\ LeftLoop(d)) =>
            (dirty[d] = 0 /\ (d = MemoryName => memPending = 0))

\* C7: Completed is sent at most once per device, only by a device that has
\* sent TransferAuthority and whose WaitForCompletion then returned nil.
C7_CompletedAfterAuthority ==
    /\ [](\A d \in Devices :
            /\ obs.Completed[d] <= obs.TransferAuthority[d]
            /\ obs.TransferAuthority[d] <= 1
            /\ pc[d] \in {"final_wait", "send_completed"} =>
                   obs.TransferAuthority[d] = 1)
    /\ [][\A d \in Devices :
            /\ obs.Completed'[d] # obs.Completed[d] =>
                   /\ pc[d] = "send_completed"
                   /\ obs.Completed'[d] = 1
            /\ (pc'[d] = "send_completed" /\ pc[d] # "send_completed") =>
                   /\ pc[d] = "final_wait"
                   /\ moving[d] = 0]_vars

\* C7 witness: a device has sent Completed.
C7_Witness == \E d \in Devices : impl = "peer" /\ obs.Completed[d] = 1

\* C8: the AllDevicesSent goroutine is started, and the event sent, only after
\* SendDevInfo has returned nil for every served device.
C8_AllDevicesSentAfterDevInfo ==
    (obs.AllDevicesSent > 0 \/ \E d \in Devices : adsGoroutine[d] # "none") =>
        \A d \in Devices : obs.DevInfo[d] = 1

\* C8 witness: AllDevicesSent was sent.
C8_Witness == obs.AllDevicesSent >= 1

\* C9 (as claimed): AllDevicesSent is sent at most once per migration.
C9_AllDevicesSentOnce ==
    /\ obs.AllDevicesSent <= 1
    /\ Cardinality({d \in Devices : adsGoroutine[d] # "none"}) <= 1

\* C10: at the end of a cycle whose sample has n blocks, total_cycles is
\* incremented; if n < MaxDirtyBlocks the below-threshold counter is incremented
\* and the device is marked ready iff the counter then exceeds MinCycles; else
\* if total_cycles > MaxCycles it is marked ready; else the counter is reset to
\* 0.  With every sample below the threshold the device is ready from the end
\* of cycle MinCycles + 1 on and not earlier.
C10_ConvergencePolicy ==
    /\ [][LET d == MemoryName
              c == migrateToDevice[MemoryName]
              n == samples'[Len(samples')]
          IN /\ totalCycles'[d] = totalCycles[d] + 1
             /\ IF n < c.MaxDirtyBlocks
                THEN /\ cyclesBelowDirtyBlockTreshold'[d] =
                            cyclesBelowDirtyBlockTreshold[d] + 1
                     /\ ready'[d] <=>
                            (ready[d] \/ cyclesBelowDirtyBlockTreshold'[d] > c.MinCycles)
                ELSE IF totalCycles'[d] > c.MaxCycles
                     THEN /\ ready'[d]
                          /\ cyclesBelowDirtyBlockTreshold'[d] =
                                 cyclesBelowDirtyBlockTreshold[d]
                     ELSE /\ cyclesBelowDirtyBlockTreshold'[d] = 0
                          /\ ready'[d] <=> ready[d]
             /\ devicesLeftToTransferAuthorityFor' =
                    devicesLeftToTransferAuthorityFor +
                        (IF ready'[d] /\ ~ready[d] THEN 1 ELSE 0)]_vars
    /\ []((\A i \in 1..Len(samples) :
               samples[i] < migrateToDevice[MemoryName].MaxDirtyBlocks) =>
           (ready[MemoryName] <=>
               Len(samples) >= migrateToDevice[MemoryName].MinCycles + 1))

\* C10 witness: with MinCycles >= 1 and all samples below the threshold, the
\* device is ready right at the end of cycle MinCycles + 1.
C10_Witness ==
    /\ impl = "policy"
    /\ migrateToDevice[MemoryName].MinCycles >= 1
    /\ Len(samples) = migrateToDevice[MemoryName].MinCycles + 1
    /\ \A i \in 1..Len(samples) :
           samples[i] < migrateToDevice[MemoryName].MaxDirtyBlocks
    /\ ready[MemoryName]

C12_ReadyByMaxCyclesPlusOne ==
    impl = "policy" =>
        (Len(samples) >= migrateToDevice[MemoryName].MaxCycles + 1 =>
             ready[MemoryName])

\* C12 (amended): a cycle numbered above MaxCycles marks the device ready when
\* its sample is not below MaxDirtyBlocks; when no sample is below MaxDirtyBlocks
\* the device is ready exactly from the end of cycle MaxCycles + 1 on; and in
\* every case it is ready by the end of cycle MaxCycles + MinCycles + 1.
C12_ForcedConvergence ==
    impl = "policy" =>
        /\ (/\ Len(samples) > migrateToDevice[MemoryName].MaxCycles
            /\ samples[Len(samples)] >=
                   migrateToDevice[MemoryName].MaxDirtyBlocks) => ready[MemoryName]
        /\ (\A i \in 1..Len(samples) :
                samples[i] >= migrateToDevice[MemoryName].MaxDirtyBlocks) =>
               (ready[MemoryName] <=>
                    Len(samples) >= migrateToDevice[MemoryName].MaxCycles + 1)
        /\ Len(samples) >= migrateToDevice[MemoryName].MaxCycles
                               + migrateToDevice[MemoryName].MinCycles + 1 =>
               ready[MemoryName]

\* C12 witness: MaxCycles = 3, every sample at or above a non-zero threshold;
\* the device is ready at the end of cycle 4.
C12_Witness ==
    /\ impl = "policy"
    /\ migrateToDevice[MemoryName].MaxCycles = 3
    /\ migrateToDevice[MemoryName].MaxDirtyBlocks >= 1
    /\ Len(samples) = 4
    /\ totalCycles[MemoryName] = 4
    /\ \A i \in 1..4 : samples[i] >= migrateToDevice[MemoryName].MaxDirtyBlocks
    /\ ready[MemoryName]

\* C13: while a device whose migration ended with an error was not marked
\* ready, the suspend sequence has not been started: OnBeforeSuspend has not
\* fired, the VM runs and is not marked suspended.
C13_NoSuspendAfterEarlyFailure ==
    \A d \in Devices :
        (pc[d] = "failed" /\ ~ready[d]) =>
            /\ onceState = "idle"
            /\ obs.OnBeforeSuspend = 0
            /\ obs.SuspendAndCloseAgentServer = 0
            /\ obs.SuspendAndMsync = 0
            /\ vmRunning
            /\ ~suspendedVM

\* C13 witness: one device failed before it was ready, while the other device
\* is ready and stands at the test that guards the suspend sequence.
C13_Witness ==
    \E d, e \in Devices :
        /\ pc[d] = "failed" /\ ~ready[d]
        /\ ready[e] /\ pc[e] = "susp_check"

\* C14: once the DevInfo of a device that the device list does not name, or
\* names with a blank base, was handled, ErrUnknownDeviceName is among the
\* errors of MigrateFrom and its scope is cancelled; the device was not counted
\* as received, no device was set up or exposed for it, and MigrateFrom, once
\* returned, has returned an error.
C14_UnknownDeviceRejected ==
    \A d \in Devices :
        (/\ TrimSpace(BaseOf(devices, d)) = <<>>
         /\ devInfoQ[d] \notin {"none", "sent"}) =>
            /\ devInfoQ[d] = "rejected"
            /\ "ErrUnknownDeviceName" \in errs
            /\ internalCtxDone
            /\ d \notin stage2Inputs
            /\ obs.OnRemoteDeviceReceived[d] = 0
            /\ obs.OnRemoteDeviceExposed[d] = 0
            /\ receivedButNotReadyRemoteDevices =
                   Cardinality({e \in Devices : devInfoQ[e] = "handled"})
            /\ migrateFrom = "returned" => errs # {}

\* C14 witness: one device was admitted, the DevInfo of the other one, listed
\* with a base of white space, was rejected, and MigrateFrom has returned.
C14_Witness ==
    \E d, e \in Devices :
        /\ devInfoQ[d] = "rejected"
        /\ BaseOf(devices, d) = <<" ">>
        /\ devInfoQ[e] = "handled"
        /\ receivedButNotReadyRemoteDevices = 1
        /\ migrateFrom = "returned"
        /\ "ErrUnknownDeviceName" \in errs

\* C15 (as claimed): for a device that is not shared, the base alone is used
\* exactly when overlay and state are both blank; otherwise the schema is a
\* sparse file at the overlay path over the base, with the state path.
C15_BaseOnlyIffBothBlank ==
    (impl = "schema" /\ ds.System \in {"file", "sparsefile"}) =>
        /\ ds.System = "file" <=>
               (TrimSpace(input.Overlay) = <<>> /\ TrimSpace(input.State) = <<>>)
        /\ ds.System = "sparsefile" =>
               /\ ds.Location = input.Overlay
               /\ ds.ROSource.Name = input.State
               /\ ds.ROSource.Location = input.Base

\* C16 (as claimed): a device whose migration failed on a Msync call of the
\* dirty loop has seen that call fail twice, the call and its retry.
C16_LoopMsyncRetried ==
    \A d \in Devices :
        (pc[d] = "failed" /\ obs.LoopMsyncFailed >= 1) =>
            obs.LoopMsyncFailed >= 2

\* C17 (as claimed): when SuspendAndCloseAgentServer has failed in the suspend
\* sequence, the source has created a snapshot to recover from.
C17_RescueSnapshot ==
    (/\ onceState = "done" /\ onceErr
     /\ obs.OnBeforeSuspend >= 1
     /\ obs.SuspendAndCloseAgentServer = 0) => obs.CreateSnapshot >= 1

C18_CompleteAfterAllCompleted ==
    (impl = "peer" /\ obs.OnRemoteAllMigrationsCompleted >= 1) =>
        \A d \in stage2Inputs : dstCompleted[d]

\* The devices of the resumed peer that the device list names, in the order
\* of the resumed peer.
ServedNames ==
    SelectSeq(stage4Inputs,
              LAMBDA n : \E i \in 1..Len(devices) : devices[i].Name = n)

\* C19: the indices of the to-protocols MigrateTo opens are pairwise
\* distinct, each served device gets the index of its rank among the served
\* devices (a device that is not served leaves no gap), an index once given
\* does not change, and when every to-protocol is open the indices are exactly
\* 0 .. N - 1 for the N served devices.
C19_ToIndices ==
    [][impl = "stage" =>
        /\ tos \subseteq tos'
        /\ \A t, u \in tos' : t.index = u.index => t = u
        /\ \A t \in tos' :
               /\ t.index \in 0..(Len(ServedNames) - 1)
               /\ ServedNames[t.index + 1] = t.name
        /\ (/\ stage4Pos' = Len(stage4Inputs)
            /\ Cardinality(tos') = Len(stage5Inputs')) =>
               {t.index : t \in tos'} = 0..(Len(ServedNames) - 1)]_vars

\* C19 witness: three devices, the second one is not served; the to-protocols
\* of the first and the third are open with the indices 0 and 1.
C19_Witness ==
    /\ impl = "stage"
    /\ Len(stage4Inputs) = 3
    /\ stage4Pos = 3
    /\ ~(\E i \in 1..Len(devices) : devices[i].Name = stage4Inputs[2])
    /\ tos = {[pos |-> 1, name |-> stage4Inputs[1], index |-> 0],
              [pos |-> 2, name |-> stage4Inputs[3], index |-> 1]}

\* C21: in MigratablePeer.MigrateTo a sample of a device is followed by a
\* DirtyList frame exactly when it is not empty; the frame is sent in the step
\* that hands the sample to the migrator, with no migration of the device in
\* flight, and a device the guest has not written has sent no DirtyList frame.
C21_DirtyListIffNonEmpty ==
    [][impl = "peer" =>
        \A d \in Devices :
            /\ (pc[d] = "sample" /\ pc'[d] \in {"check_susp", "throttle_check"}) =>
                   obs'.DirtyList[d] =
                       obs.DirtyList[d] + (IF dirty[d] > 0 THEN 1 ELSE 0)
            /\ obs'.DirtyList[d] # obs.DirtyList[d] =>
                   /\ pc[d] = "sample"
                   /\ dirty[d] > 0
                   /\ ongoingMigrationsWg[d] = 0
                   /\ ongoingMigrationsWg'[d] = 1
            /\ ongoingMigrationsWg'[d] > ongoingMigrationsWg[d] =>
                   obs'.DirtyList[d] = obs.DirtyList[d] + 1
            /\ d \notin obs'.Written => obs'.DirtyList[d] = 0]_vars

\* C21 witness: one device sent a DirtyList frame for a sample, the other one
\* was never written and completed without any.
C21_Witness ==
    \E d, e \in Devices :
        /\ impl = "peer"
        /\ obs.DirtyList[d] >= 1
        /\ e \notin obs.Written
        /\ obs.DirtyList[e] = 0
        /\ pc[e] = "done"
        /\ obs.Completed[e] = 1

\* C22 (as claimed): a device that waits between two iterations of its dirty
\* loop while its timer has not fired goes on as soon as the suspension is
\* announced (suspendedVMCh is closed): its wait can end at once.
C22_WaitEndsOnSuspension ==
    \A d \in Devices :
        /\ (pc[d] = "throttle_wait" /\ suspendedVMCh) =>
               ENABLED (ThrottleWait(d) /\ pc'[d] = "count")
        /\ (pc[d] = "dm_sleep" /\ suspendedVMCh) =>
               ENABLED DMSleep(d)

\* C23 (as claimed): the steps of the suspend sequence of
\* MigratablePeer.MigrateTo run in the order OnBeforeSuspend,
\* SuspendAndCloseAgentServer, final Msync, suspended flag set and broadcast,
\* OnAfterSuspend: when OnAfterSuspend has fired, the flag is set and
\* suspendedVMCh is closed.
C23_AfterSuspendAfterFlag ==
    impl = "peer" =>
        /\ obs.SuspendAndCloseAgentServer <= obs.OnBeforeSuspend
        /\ obs.FinalMsync <= obs.SuspendAndCloseAgentServer
        /\ obs.SetSuspended <= obs.FinalMsync
        /\ obs.OnAfterSuspend >= 1 => (suspendedVM /\ suspendedVMCh)

\* C23 (amended): the steps of the suspend sequence of MigratablePeer.MigrateTo
\* run at most once each, in the order OnBeforeSuspend,
\* SuspendAndCloseAgentServer, final Msync, OnAfterSuspend, suspended flag set,
\* suspendedVMCh closed: the OnAfterSuspend hook has fired before the flag is
\* set, and the flag is set before the broadcast.
C23_AfterSuspendBeforeFlag ==
    impl = "peer" =>
        /\ obs.OnBeforeSuspend <= 1
        /\ obs.SuspendAndCloseAgentServer <= obs.OnBeforeSuspend
        /\ obs.FinalMsync <= obs.SuspendAndCloseAgentServer
        /\ obs.OnAfterSuspend <= obs.FinalMsync
        /\ obs.SetSuspended <= obs.OnAfterSuspend
        /\ suspendedVM <=> obs.SetSuspended = 1
        /\ suspendedVMCh => suspendedVM

C23_Witness ==
    /\ impl = "peer"
    /\ obs.OnAfterSuspend = 1
    /\ suspendedVM /\ suspendedVMCh
    /\ \E d \in Devices : pc[d] = "done"

\* The blocks of a device that overlap the bytes offset .. offset + length - 1,
\* cut at the end of the device, with blocks of block_size bytes.
OverlappingBlocks(offset, length) ==
    LET end == IF offset + length < storageSize THEN offset + length ELSE storageSize
    IN  {b \in 0..NeedMaxSize + 1 :
            /\ offset \div blockSize <= b
            /\ b <= (end - 1) \div blockSize}

\* C24: a NeedAt(offset, length) with length > 0 and offset < size prioritises
\* exactly the blocks b with floor(offset / block_size) <= b <=
\* floor((min(offset + length, size) - 1) / block_size).
C24_NeedAtPrioritisesOverlap ==
    (needCall.op = "NeedAt" /\ needCall.length > 0 /\ needCall.offset < storageSize) =>
        /\ needCall.blocks = OverlappingBlocks(needCall.offset, needCall.length)
        /\ needCall.blocks \subseteq prioritised

C24_Witness ==
    /\ needCall.op = "NeedAt"
    /\ needCall.offset < storageSize
    /\ needCall.offset + needCall.length > storageSize
    /\ blockSize = 2
    /\ needCall.offset \div blockSize >= 1
    /\ Cardinality(needCall.blocks) = 2

\* C25 (as claimed): a DontNeedAt(offset, length) with length > 0 and
\* offset < size removes exactly the blocks that overlap the range, computed
\* with block_size as the divisor: the set NeedAt prioritises for that range.
C25_DontNeedAtRemovesOverlap ==
    (needCall.op = "DontNeedAt" /\ needCall.length > 0 /\ needCall.offset < storageSize) =>
        needCall.blocks = OverlappingBlocks(needCall.offset, needCall.length)

\* C26: the lock handler emits PreLock, locks the gate, then emits PostLock;
\* the unlock handler emits PreUnlock, unlocks the gate, then emits
\* PostUnlock.  PostLock is never sent while the gate is unlocked, and every
\* PostLock is preceded by the PreLock of its handler call.
C26_LockHandlerOrder ==
    [][\A d \in Devices :
          /\ \A i \in 1..Len(lockTrace'[d]) :
                /\ lockTrace'[d][i] = "Lock" =>
                       i > 1 /\ lockTrace'[d][i - 1] = "PreLock"
                /\ lockTrace'[d][i] = "PostLock" =>
                       i > 2 /\ lockTrace'[d][i - 1] = "Lock"
                             /\ lockTrace'[d][i - 2] = "PreLock"
                /\ lockTrace'[d][i] = "Unlock" =>
                       i > 1 /\ lockTrace'[d][i - 1] = "PreUnlock"
                /\ lockTrace'[d][i] = "PostUnlock" =>
                       i > 2 /\ lockTrace'[d][i - 1] = "Unlock"
                             /\ lockTrace'[d][i - 2] = "PreUnlock"
          /\ lockTrace'[d] = Append(lockTrace[d], "PostLock") =>
                 gateLocked[d] /\ gateLocked'[d]
          /\ lockTrace'[d] = Append(lockTrace[d], "PostUnlock") =>
                 ~gateLocked[d] /\ ~gateLocked'[d]]_vars

C26_Witness ==
    \E d, e \in Devices :
        /\ d # e
        /\ lockTrace[d] = <<"PreLock", "Lock", "PostLock",
                            "PreUnlock", "Unlock", "PostUnlock",
                            "PreLock", "Lock", "PostLock">>
        /\ gateLocked[d]
        /\ lockPc[e] = "u_post"
        /\ ~gateLocked[e]

RECURSIVE Reversed(_)
Reversed(q) == IF q = <<>> THEN <<>> ELSE Append(Reversed(Tail(q)), Head(q))

RECURSIVE FailedCalls(_)
FailedCalls(q) ==
    IF q = <<>> THEN <<>>
    ELSE IF Head(q).err THEN <<Head(q).fn>> \o FailedCalls(Tail(q))
         ELSE FailedCalls(Tail(q))

\* C27: migratedPeer.Close closes the runner first, then runs the close
\* functions registered when it took the lock in reverse order of
\* registration, all of them whether or not some fail, then waits for the
\* protocol; the error of every call that failed is joined into the result.
C27_CloseOrder ==
    /\ closePc = "closed" =>
           /\ [i \in 1..Len(closeTrace) |-> closeTrace[i].fn] =
                  <<RunnerClose>> \o Reversed(closeRange) \o <<WaitCall>>
           /\ closeErrs = FailedCalls(closeTrace)
           /\ ~deviceCloseFuncsLock
    /\ closeTrace # <<>> => closeTrace[1].fn = RunnerClose
    /\ (deviceCloseFuncsLock /\ closePc = "return") =>
           (closeRange = deviceCloseFuncs /\ closeIdx = Len(closeRange))

C27_Witness ==
    /\ closePc = "closed"
    /\ Len(closeRange) = 4
    /\ closeTrace[2].err /\ closeTrace[3].err /\ ~closeTrace[4].err
    /\ Len(closeErrs) = 2

\* C28 (as claimed): every device of the destination configuration is set up
\* at most once, remotely when its DevInfo was received and locally only once
\* all remote devices are reported received; no device is set up both
\* remotely and locally, whatever the order in which the DevInfo handlers and
\* the handler of AllDevicesSent run.
C28_MaterialisedOnce ==
    \A d \in Devices :
        /\ obs.OnRemoteDeviceExposed[d] + obs.OnLocalDeviceExposed[d] <= 1
        /\ obs.OnLocalDeviceExposed[d] >= 1 => allRemoteDevicesReceived
        /\ (migrateFrom = "select_ready" /\ (\E i \in 1..Len(devices) : devices[i].Name = d)) =>
               obs.OnRemoteDeviceExposed[d] + obs.OnLocalDeviceExposed[d] >= 1

\* C29 (as claimed): on the destination allRemoteDevicesReadyCtx is done only
\* when a TransferAuthority event was handled for every remote device a
\* DevInfo admitted and no DevInfo is still waiting to be handled; the end of
\* the protocol stream alone does not raise it.
C29_ReadyOnlyAfterAllAuthority ==
    allRemoteDevicesReady =>
        \A d \in Devices :
            /\ devInfoQ[d] = "handled" => dstAuthority[d]
            /\ devInfoQ[d] # "sent"

\* A call failed or the context was cancelled: the function of a device
\* returned an error.
IOError == \E d \in Devices : pc[d] \in {"failed", "cancelled"}

\* The model follows a device for CycleCap cycles of its loop and no further;
\* a device ends at most two cycles after the suspend sequence completed (the
\* one it is in and the one that moves what the final Msync flushed).
CyclesLeft == \A d \in Devices : totalCycles[d] + 2 <= CycleCap

\* C30: once the suspend sequence has completed (the guest is paused, so no
\* further write reaches a device), under fair scheduling and without I/O
\* errors every device leaves its dirty loop, sends TransferAuthority and
\* then Completed, and its function returns.  The DirtyManager ends the
\* dirty sync of every device; the events are then sent by its caller.
C30_Termination ==
    (suspendedVMCh /\ CyclesLeft) ~>
        \/ IOError
        \/ \A d \in Devices :
              /\ pc[d] = "done"
              /\ impl = "peer" =>
                     (obs.TransferAuthority[d] = 1 /\ obs.Completed[d] = 1)

C30_Witness ==
    /\ impl = "peer"
    /\ suspendedVMCh
    /\ ~IOError
    /\ \A d \in Devices :
          /\ pc[d] = "done"
          /\ obs.TransferAuthority[d] = 1
          /\ obs.Completed[d] = 1
    /\ \E d \in Devices : obs.DirtyList[d] >= 1

\* C31: for any sequence of sample sizes, a device whose loop keeps running is
\* marked ready no later than the end of cycle MaxCycles + MinCycles + 1: a
\* cycle numbered above MaxCycles never resets the below-threshold counter, it
\* either marks the device ready or adds one to the counter.
C31_ReadyByMaxPlusMinPlusOne ==
    [][impl = "policy" =>
          LET d == MemoryName
              c == migrateToDevice[MemoryName]
          IN  /\ totalCycles'[d] > c.MaxCycles =>
                     \/ ready'[d] /\ cyclesBelowDirtyBlockTreshold'[d] =
                                         cyclesBelowDirtyBlockTreshold[d]
                     \/ cyclesBelowDirtyBlockTreshold'[d] =
                            cyclesBelowDirtyBlockTreshold[d] + 1
              /\ totalCycles'[d] >= c.MaxCycles + c.MinCycles + 1 => ready'[d]]_vars

\* C31 witness: the first MaxCycles samples reset the counter, the following
\* MinCycles + 1 are below the threshold: the device is ready at the end of
\* cycle MaxCycles + MinCycles + 1.
C31_Witness ==
    LET c == migrateToDevice[MemoryName] IN
    /\ impl = "policy"
    /\ c.MaxCycles >= 1 /\ c.MinCycles >= 1
    /\ Len(samples) = c.MaxCycles + c.MinCycles + 1
    /\ totalCycles[MemoryName] = Len(samples)
    /\ \A i \in 1..Len(samples) :
           IF i <= c.MaxCycles THEN samples[i] >= c.MaxDirtyBlocks
           ELSE samples[i] < c.MaxDirtyBlocks
    /\ cyclesBelowDirtyBlockTreshold[MemoryName] = c.MinCycles + 1
    /\ ready[MemoryName]

\* C32: once the suspend sequence has returned an error, the suspended flag is
\* never set and suspendedVMCh never closed, OnAfterSuspend does not fire, no
\* device sends TransferAuthority or Completed (the DirtyManager does not call
\* AuthorityTransfer), the sequence is not run again, and a device goroutine
\* that calls it afterwards gets the error and ends with it.
C32_SuspendErrorIsFinal ==
    [][onceErr' =>
          /\ ~suspendedVM' /\ ~suspendedVMCh'
          /\ obs'.OnAfterSuspend = 0 /\ obs'.SetSuspended = 0
          /\ obs'.OnBeforeSuspend = 1
          /\ obs'.AuthorityTransfer = 0
          /\ \A d \in Devices :
                /\ obs'.TransferAuthority[d] = 0 /\ obs'.Completed[d] = 0
                /\ pc'[d] \notin {"send_ta", "final_wait", "send_completed", "done",
                                  "dm_transfer"}
                /\ (onceErr /\ pc[d] \in {"susp_check", "dm_suspend"}
                            /\ pc'[d] # pc[d]) => pc'[d] = "failed"]_vars

\* C32 witness: the device that ran the sequence ended with its error and the
\* other device is at the call.
C32_Witness ==
    \E d, e \in Devices :
        /\ impl = "peer"
        /\ onceErr /\ onceState = "done"
        /\ obs.SuspendAndCloseAgentServer = 1 /\ obs.FinalMsync = 0
        /\ pc[d] = "failed"
        /\ pc[e] = "susp_check"

\* C33: a device of MigratablePeer.MigrateTo whose context is cancelled while
\* it waits on the cycle throttle before the suspension (the timer has not
\* fired, suspendedVMCh is open) leaves the wait only with the
\* context-cancelled error; its function has returned, and it sends neither
\* TransferAuthority nor Completed.
C33_CancelledWhileWaiting ==
    [][\A d \in Devices :
          /\ (pc[d] = "throttle_wait" /\ ~suspendedVMCh /\ pc'[d] # pc[d]) =>
                 pc'[d] \in {"cancelled", "throttle_elapsed"}
          /\ (pc'[d] = "cancelled" /\ pc[d] # "cancelled") =>
                 /\ pc[d] \in {"throttle_wait", "throttle_elapsed"}
                 /\ obs.TransferAuthority[d] = 0 /\ obs.Completed[d] = 0
          /\ pc[d] = "cancelled" =>
                 /\ pc'[d] = "cancelled"
                 /\ obs'.TransferAuthority[d] = 0 /\ obs'.Completed[d] = 0
                 /\ evQ'[d] = evQ[d] \/ evQ'[d] = Tail(evQ[d])]_vars

\* C33 witness: one device was cancelled in its wait; the other went on, and
\* the VM was never suspended.
C33_Witness ==
    \E d, e \in Devices :
        /\ impl = "peer"
        /\ pc[d] = "cancelled"
        /\ pc[e] = "throttle_wait"
        /\ ~suspendedVM /\ obs.OnBeforeSuspend = 0

C35_ReadyCountedOnce ==
    [][LET Marked(r) == Cardinality({d \in Devices : r[d]})
       IN  /\ devicesLeftToTransferAuthorityFor = Marked(ready)
           /\ devicesLeftToTransferAuthorityFor' = Marked(ready')
           /\ devicesLeftToTransferAuthorityFor' <= NumDevices
           /\ devicesLeftToTransferAuthorityFor' >= devicesLeftToTransferAuthorityFor
           /\ \A d \in Devices :
                  /\ ready[d] => ready'[d]
                  /\ (ready[d] /\ totalCycles'[d] # totalCycles[d]) =>
                         devicesLeftToTransferAuthorityFor' =
                             devicesLeftToTransferAuthorityFor]_vars

\* C35 witness: a device satisfied the ready condition in two cycles
\* (MinCycles = 0, two samples below the threshold) and counts once, while the
\* other device is not ready.
C35_Witness ==
    \E d, e \in Devices :
        /\ migrateToDevice[d].MinCycles = 0
        /\ ready[d] /\ cyclesBelowDirtyBlockTreshold[d] >= 2
        /\ ~ready[e]
        /\ devicesLeftToTransferAuthorityFor = 1

\* C36: in MigratablePeer.MigrateTo no Msync of a dirty loop is issued once
\* SuspendAndCloseAgentServer has returned inside the suspend sequence,
\* whatever the interleaving of the memory device's loop with the goroutine
\* that runs the suspend sequence.
C36_NoLoopMsyncAfterGuestSuspended ==
    [][\A d \in Devices :
          (/\ impl = "peer"
           /\ pc[d] = "loop_msync"
           /\ pc'[d] # pc[d]
           /\ d \in obs'.LoopMsyncFor
           /\ LoopMsyncDue(suspendedVM, d)) =>
              obs.SuspendAndCloseAgentServer = 0]_vars

\* C37: a call of Resume that failed made the recovery snapshot if and only if
\* it failed after ResumeSnapshot succeeded; the accepting agent and the
\* agent server it has were closed before that snapshot.
C37_RecoverySnapshotIffResumed ==
    \A c \in ResumeCalls :
        LET t == resumeTrace[c]
            Has(e) == \E i \in 1..Len(t) : t[i] = e
            afterResumeSnapshot ==
                resumeFailedAt[c] \in {"accept", "after_resume"}
        IN  (resumePc[c] = "returned" /\ resumeFailedAt[c] # "none") =>
                /\ Has("createSnapshot") <=> afterResumeSnapshot
                /\ Has("createSnapshot") =>
                       /\ t[Len(t)] = "createSnapshot"
                       /\ agent[c] => Has("agent.Close")
                       /\ acceptingAgent[c] = "connected" => Has("acceptingAgent.Close")

\* C38: firecrackerCtx, the context of the hypervisor process, is cancelled
\* only when hypervisorCtx is done and no call of Resume is running.
C38_CancelledOnlyWhenNoResumeRuns ==
    [][(firecrackerCtxDone' /\ ~firecrackerCtxDone /\ ~rescueCtxDone') =>
          /\ hypervisorCtxDone
          /\ \A c \in ResumeCalls : resumePc[c] \in {"idle", "returned"}]_vars

\* C39: Accept returns a nil error only after a client connected, with
\* Remote, Wait and Close of the accepting server set; when the agent server
\* is closed while Accept waits for a connection, Accept returns an error.
C39_NilErrorOnlyWithClient ==
    [][/\ (acceptPc' = "returned" /\ acceptErrs' = "nil") =>
              /\ acceptingAgentServer'.Remote
              /\ acceptingAgentServer'.Wait
              /\ acceptingAgentServer'.Close
       /\ (acceptPc = "lis.Accept" /\ lisClosed /\ acceptPc' = "returned") =>
              acceptErrs' = "error"]_vars

====
